---- MODULE Spec2Model ----
(***************************************************************************)
(* Space Craft authoritative game server: the room runtime, the room       *)
(* registry and the connection gateway of src/server.js, with the          *)
(* terminal resolution of the simulation (Game.initState, tick,           *)
(* isTerminal).                                                            *)
(*                                                                         *)
(* One room id is modelled; a room id can be served by several RoomRuntime *)
(* objects over time (the registry entry is deleted and re-created), so    *)
(* the RoomRuntime objects are kept in the sequence rt and the registry    *)
(* rooms holds the index of the object registered under the room id.       *)
(* Node runs every handler to completion, so one action is one handler.    *)
(* A RoomRuntime object that nothing references any more (not registered,  *)
(* no pending timer, no pending webhook) is garbage: the model keeps its   *)
(* counters and flags only, and shows the object as the handler left it in *)
(* ev.gone.                                                                *)
(***************************************************************************)
EXTENDS Integers, Sequences, FiniteSets, TLC

(* ---- bounds of the model ---- *)
NumSockets == 2          \* sockets accepted over the lifetime of the server
MaxRooms == 2            \* RoomRuntime objects created for the room id
MaxSeq == 2              \* largest client sequence number sent
LagInputs == 4           \* inputs one user sends in a latency-smoothing run
HistoryTicks == 32       \* simulation ticks of a position-history run
ArmsTicks == 3           \* simulation ticks of a special-weapon run
LaserTicks == 64         \* simulation ticks of a laser run
RoundTicks == 2          \* round duration in tick periods (180000 ms in CONFIG)
FullSnapshotEvery == 2   \* FULL_SNAPSHOT_INTERVAL_NET_TICKS (environment)

(* ---- program constants ---- *)
MIN_PLAYERS == 2
SIM_TICK_HZ == 60
SIM_TICK_MS == 1000 \div SIM_TICK_HZ
NETWORK_EVERY_SIM_TICKS == 1
FULL_SNAPSHOT_INTERVAL_NET_TICKS == IF FullSnapshotEvery > 1 THEN FullSnapshotEvery ELSE 1
MAX_LAG_COMP_MS == 120
MAX_CLIENT_INPUT_AGE_MS == 2000
CONFIG_maxHp == 100
\* Hit points are kept in units of 0.00001: the damage of a laser beam is
\* laserDps * dt, a fraction of a hit point (game.js applyLaserDamage).
HpUnit == 100000
\* the tolerance 0.0001 of the ranking in resolveTerminal, in those units
ScoreTolerance == HpUnit \div 10000
CONFIG_maxLagCompensationMs == 400
CONFIG_roundDurationMs == RoundTicks * SIM_TICK_MS

Max(a, b) == IF a > b THEN a ELSE b
Min(a, b) == IF a < b THEN a ELSE b

(* ---- JavaScript numbers ---- *)
\* NaN is a value apart from every number; JsText is a JSON string that is
\* no numeral (Number of it is NaN)
NaN == 0 - 1000000
JsText == 0 - 1000001
IsNum(v) == v # NaN
\* Number(v): of a JSON number or of a string that is no numeral
ToNumber(v) == IF v = JsText THEN NaN ELSE v
\* v || 0: NaN and 0 are falsy, a string that is not empty is truthy
orZero_keep(v) == v
orZero(v) == IF v = NaN THEN 0 ELSE v
\* Math.min and Math.max return NaN when an argument is NaN
MathMin(a, b) == IF a = NaN \/ b = NaN THEN NaN ELSE Min(a, b)
MathMax(a, b) == IF a = NaN \/ b = NaN THEN NaN ELSE Max(a, b)

(* ---- tokens the upstream API mints for the room id ---- *)
\* A verified token binds a socket to a user id (sub) and a session id. Users
\* and session ids are numbered in the order of their first appearance; a
\* session id belongs to one user; service_id is always present on a verified
\* token.
Sockets == 1..(NumSockets + 1)
UserIds == Sockets
SessionIds == Sockets

(* ---- input payloads a client can send (payload.action_data) ---- *)
\* client_age is now - client_sent_at_ms; -1 stands for an absent
\* client_sent_at_ms (any other negative value is the age of a timestamp ahead
\* of the server's clock); fire_seq 0 stands for an absent fire_seq
Payloads == { [turn |-> 0, thrust |-> 0, fire |-> FALSE, fire_pressed |-> FALSE,
               fire_seq |-> 0, client_age |-> -1],
              [turn |-> 1, thrust |-> 1, fire |-> TRUE, fire_pressed |-> TRUE,
               fire_seq |-> 7, client_age |-> 40] }

\* measured interval since the previous tick start, in ms
ElapsedChoices == {15, 40}
\* damage one ship can take in one simulation tick (none, or a bomb's direct hit)
DamageChoices == {0, 60 * HpUnit}

VARIABLES
  rooms,   \* the registry: index in rt of the room registered under the room id, or 0
  rt,      \* the RoomRuntime objects created so far
  socks,   \* the sockets: readyState and the session bound by the token
  ev       \* the last handler that ran: its frames, its result, the object it dropped

vars == <<rooms, rt, socks, ev>>

(* ---- JS objects and Maps with dynamic keys ---- *)
Has(f, k) == k \in DOMAIN f
Get(f, k, d) == IF k \in DOMAIN f THEN f[k] ELSE d
Put(f, k, v) == [x \in (DOMAIN f) \cup {k} |-> IF x = k THEN v ELSE f[x]]
Del(f, k) == [x \in (DOMAIN f) \ {k} |-> f[x]]
EmptyMap == [x \in {} |-> 0]

SeqHas(s, e) == \E i \in 1..Len(s) : s[i] = e
\* Set.add / Set.delete, keeping insertion order
SetAdd(s, e) == IF SeqHas(s, e) THEN s ELSE Append(s, e)
SetDelete(s, e) == SelectSeq(s, LAMBDA x : x # e)
Range(s) == {s[i] : i \in 1..Len(s)}
Slice2(s) == IF Len(s) > 2 THEN SubSeq(s, 1, 2) ELSE s

(* ---- session table: Map sessionId -> {userId, ws}, insertion ordered ---- *)
SessionsHas(sessions, sid) == \E i \in 1..Len(sessions) : sessions[i].sessionId = sid
SessionsGet(sessions, sid) ==
  LET i == CHOOSE i \in 1..Len(sessions) : sessions[i].sessionId = sid IN sessions[i]
SessionsSet(sessions, sid, uid, ws) ==
  IF SessionsHas(sessions, sid)
  THEN [i \in 1..Len(sessions) |->
          IF sessions[i].sessionId = sid
          THEN [sessionId |-> sid, userId |-> uid, ws |-> ws]
          ELSE sessions[i]]
  ELSE Append(sessions, [sessionId |-> sid, userId |-> uid, ws |-> ws])
SessionsDelete(sessions, sid) == SelectSeq(sessions, LAMBDA e : e.sessionId # sid)

(* ---- simulation ---- *)
NoState == [phase |-> "null"]

\* The world of this model keeps what decides the end of a match: the hit
\* points and alive flag of each ship and the round clock.
NewShip(id) == [id |-> id, hp |-> CONFIG_maxHp * HpUnit, alive |-> TRUE]

initState(playerIds) ==
  LET ids == Slice2(playerIds) IN
  [phase |-> "playing", tick |-> 0, remainingMs |-> CONFIG_roundDurationMs,
   order |-> ids,
   players |-> [p \in Range(ids) |-> NewShip(p)],
   projectiles |-> <<>>, pickups |-> <<>>,
   winnerIds |-> <<>>, reason |-> "null"]

\* ids of the alive ships, in the insertion order of state.players
AliveIds(state) == SelectSeq(state.order, LAMBDA p : state.players[p].alive)

TopScore(state) ==
  CHOOSE h \in {state.players[p].hp : p \in Range(state.order)} :
    \A p \in Range(state.order) : state.players[p].hp <= h

Abs(v) == IF v < 0 THEN 0 - v ELSE v

\* the ship ids sorted by hp, highest first; Array.sort is stable, so ships
\* of equal hp keep the order of state.players
RECURSIVE rankFrom(_, _, _)
rankFrom(state, i, sorted) ==
  IF i > Len(state.order) THEN sorted
  ELSE LET pid == state.order[i]
           k == Cardinality({j \in 1..Len(sorted) :
                               state.players[sorted[j]].hp >= state.players[pid].hp})
       IN rankFrom(state, i + 1,
                   SubSeq(sorted, 1, k) \o <<pid>> \o SubSeq(sorted, k + 1, Len(sorted)))

Ranked(state) == rankFrom(state, 1, <<>>)

\* a resolution that looks at the round clock first
resolveTerminal_clockFirst(state) ==
  IF state.remainingMs <= 0
  THEN [state EXCEPT !.phase = "finished",
          !.winnerIds = SelectSeq(Ranked(state), LAMBDA p :
                           Abs(state.players[p].hp - TopScore(state)) < ScoreTolerance),
          !.reason = "timeout"]
  ELSE IF Len(AliveIds(state)) <= 1
  THEN [state EXCEPT !.phase = "finished", !.winnerIds = AliveIds(state),
                     !.reason = "elimination"]
  ELSE state

resolveTerminal(state) ==
  IF Len(AliveIds(state)) <= 1
  THEN [state EXCEPT !.phase = "finished", !.winnerIds = AliveIds(state),
                     !.reason = "elimination"]
  ELSE IF state.remainingMs <= 0
  THEN [state EXCEPT !.phase = "finished",
          !.winnerIds = SelectSeq(Ranked(state), LAMBDA p :
                           Abs(state.players[p].hp - TopScore(state)) < ScoreTolerance),
          !.reason = "timeout"]
  ELSE state

\* dmg[p] is the damage ship p takes in this tick from projectiles, blasts,
\* beams and novas; the physics that decides it is not part of this model
Game_tick(state, dtMs, dmg) ==
  IF state.phase # "playing" THEN state
  ELSE
    LET s2 == [state EXCEPT !.tick = @ + 1, !.remainingMs = Max(0, @ - dtMs)]
        s3 == [s2 EXCEPT !.players =
                 [p \in DOMAIN s2.players |->
                    IF ~s2.players[p].alive THEN s2.players[p]
                    ELSE LET hp == Max(0, s2.players[p].hp - dmg[p]) IN
                         [s2.players[p] EXCEPT !.hp = hp, !.alive = hp > 0]]]
    \* the world is bound once, as a value, before it is resolved
    IN CHOOSE v \in {resolveTerminal(st) : st \in {s3}} : TRUE

Clamp(v, lo, hi) == MathMax(lo, MathMin(hi, v))

\* Game.applyInput: the input it stores on ship playerId (state.players is
\* looked up by the caller: applyInput returns at once for a ship that is
\* missing or dead). fireSeq 0 stands for null; a payload without fire_seq
\* gives null.
applyInput(payload) ==
  \* the payload is bound once, as a value
  CHOOSE input \in
    {[turn |-> Clamp(ToNumber(orZero(p.turn)), -1, 1),
      thrust |-> Clamp(ToNumber(orZero(p.thrust)), -1, 1),
      fire |-> p.fire,
      firePressed |-> p.fire_pressed,
      fireSeq |-> IF Has(p, "fire_seq") /\ p.fire_seq > 0 THEN p.fire_seq ELSE 0,
      lagCompMs |-> Clamp(ToNumber(orZero(p.lag_comp_ms)), 0, CONFIG_maxLagCompensationMs)]
       : p \in {payload}} : TRUE

isTerminal(state) ==
  IF state.phase # "finished"
  THEN [terminal |-> FALSE, winnerIds |-> <<>>, reason |-> "null"]
  ELSE [terminal |-> TRUE, winnerIds |-> state.winnerIds, reason |-> state.reason]

\* The projection of an entity keeps its id and, of the numeric fields, one
\* coordinate and the time to live; a projectile's fireSeq is a number or
\* undefined (no such key in the record).
toNetworkProjectile(x) ==
  LET base == [id |-> x.id, ownerId |-> x.ownerId, x |-> x.x, ttlMs |-> x.ttlMs] IN
  IF Has(x, "fireSeq") THEN base @@ [fireSeq |-> x.fireSeq] ELSE base

toNetworkState(state) ==
  IF state = NoState THEN NoState
  ELSE [phase |-> state.phase, tick |-> state.tick, remainingMs |-> state.remainingMs,
        players |-> [p \in DOMAIN state.players |->
                       [id |-> p, hp |-> state.players[p].hp,
                        alive |-> state.players[p].alive]],
        projectiles |-> [i \in DOMAIN state.projectiles |->
                           toNetworkProjectile(state.projectiles[i])],
        pickups |-> [i \in DOMAIN state.pickups |->
                       [id |-> state.pickups[i].id, x |-> state.pickups[i].x,
                        type |-> state.pickups[i].type]]]

\* a Map keyed by id as the sequence of its values in insertion order: a
\* repeated id keeps its first position and takes the last value
RECURSIVE entityMapById(_)
entityMapById(items) ==
  IF Len(items) = 0 THEN <<>>
  ELSE LET m == entityMapById(SubSeq(items, 1, Len(items) - 1))
           item == items[Len(items)]
       IN IF \E i \in DOMAIN m : m[i].id = item.id
          THEN [i \in DOMAIN m |-> IF m[i].id = item.id THEN item ELSE m[i]]
          ELSE Append(m, item)

MapHasId(m, id) == \E i \in DOMAIN m : m[i].id = id
MapGetId(m, id) == m[CHOOSE i \in DOMAIN m : m[i].id = id]
IdsOf(m) == [i \in DOMAIN m |-> m[i].id]

shallowEqualEntity(a, b) ==
  /\ DOMAIN a = DOMAIN b
  /\ \A key \in DOMAIN a : a[key] = b[key]

\* the entries of next that are new or differ from the entry of prev
entityPatch(prevMap, nextMap) ==
  SelectSeq(nextMap, LAMBDA e : \/ ~MapHasId(prevMap, e.id)
                                \/ ~shallowEqualEntity(MapGetId(prevMap, e.id), e))

\* the ids of prev that next no longer has
entityRemoved(prevMap, nextMap) ==
  IdsOf(SelectSeq(prevMap, LAMBDA e : ~MapHasId(nextMap, e.id)))

buildDelta(prevState, nextState) ==
  IF prevState = NoState
  THEN [changed_entities |->
          [phase |-> nextState.phase, tick |-> nextState.tick,
           remainingMs |-> nextState.remainingMs, players |-> nextState.players,
           projectiles |-> nextState.projectiles, pickups |-> nextState.pickups],
        removed_entities |-> [projectiles |-> <<>>, pickups |-> <<>>]]
  ELSE
    LET playerPatch ==
          [p \in {q \in DOMAIN nextState.players :
                    \/ ~Has(prevState.players, q)
                    \/ ~shallowEqualEntity(prevState.players[q], nextState.players[q])}
             |-> nextState.players[p]]
        prevProjectiles == entityMapById(prevState.projectiles)
        nextProjectiles == entityMapById(nextState.projectiles)
        projectilePatch == entityPatch(prevProjectiles, nextProjectiles)
        prevPickups == entityMapById(prevState.pickups)
        nextPickups == entityMapById(nextState.pickups)
        pickupPatch == entityPatch(prevPickups, nextPickups)
        keys == {k \in {"phase", "tick", "remainingMs"} : prevState[k] # nextState[k]}
                  \cup (IF DOMAIN playerPatch # {} THEN {"players"} ELSE {})
                  \cup (IF Len(projectilePatch) > 0 THEN {"projectiles"} ELSE {})
                  \cup (IF Len(pickupPatch) > 0 THEN {"pickups"} ELSE {})
    IN [changed_entities |->
          [k \in keys |->
             CASE k = "players" -> playerPatch
               [] k = "projectiles" -> projectilePatch
               [] k = "pickups" -> pickupPatch
               [] OTHER -> nextState[k]],
        removed_entities |->
          [projectiles |-> entityRemoved(prevProjectiles, nextProjectiles),
           pickups |-> entityRemoved(prevPickups, nextPickups)]]

(* ---- RoomRuntime ---- *)
\* The fields of a RoomRuntime object, with the event-loop state that belongs
\* to it: timers counts the pending setTimeout callbacks of this room's tick,
\* and tickHandle says whether the stored handle is null, refers to a pending
\* timer ("live") or to one that already fired ("stale"); webhook is the
\* position of the pending handleMatchEnd call; matchEnds and posts count
\* the match_end broadcasts and the webhook POSTs the room has issued.
NewRoom(id, serviceId) ==
  [id |-> id, serviceId |-> serviceId, minPlayers |-> MIN_PLAYERS,
   sessions |-> <<>>, connectedUserIds |-> <<>>,
   running |-> FALSE, finished |-> FALSE,
   tickHandle |-> "null", lastTickTime |-> FALSE,
   serverTick |-> 0, networkTick |-> 0, state |-> NoState,
   latestInputByUser |-> EmptyMap, lastSeqByUser |-> EmptyMap,
   ackSeqByPlayer |-> EmptyMap, smoothedLagByUser |-> EmptyMap,
   lastBroadcastState |-> NoState,
   timers |-> 0, webhook |-> "none", matchEnds |-> 0, posts |-> 0,
   collected |-> FALSE]

\* A handler runs on a context: the room object o it works on, the registry
\* entry of the room id (rooms), the frames sent so far in this handler (out)
\* the result of enqueueInput (ret) and the ship inputs that the calls of
\* Game.applyInput in this handler have set (applied).
NoRet == [accepted |-> FALSE, reason |-> "none"]
Ctx(o, reg) == [o |-> o, rooms |-> reg, out |-> <<>>, ret |-> NoRet, applied |-> EmptyMap]

activePlayers(o) == o.connectedUserIds

ShipIds(o) == IF o.state = NoState THEN {} ELSE DOMAIN o.state.players

\* sockets of the session table whose readyState is OPEN
OpenSockets(o) ==
  {o.sessions[i].ws : i \in {j \in 1..Len(o.sessions) : socks[o.sessions[j].ws].status = "open"}}

broadcast(c, type, payload) ==
  [c EXCEPT !.out = Append(@, [type |-> type, room |-> c.o.id,
                               to |-> OpenSockets(c.o), payload |-> payload]),
            !.o.matchEnds = IF type = "match_end" THEN @ + 1 ELSE @]

sendJson(c, ws, type, payload) ==
  IF socks[ws].status # "open" THEN c
  ELSE [c EXCEPT !.out = Append(@, [type |-> type, room |-> c.o.id,
                                    to |-> {ws}, payload |-> payload])]

DefaultInput == [turn |-> 0, thrust |-> 0, fire |-> FALSE, fire_pressed |-> FALSE,
                 lag_comp_ms |-> 0]

upsertSession(c, sessionId, userId, ws) ==
  [c EXCEPT !.o.sessions = SessionsSet(@, sessionId, userId, ws),
            !.o.connectedUserIds = SetAdd(@, userId),
            !.o.lastSeqByUser = Put(@, userId, 0),
            !.o.ackSeqByPlayer = Put(@, userId, 0),
            !.o.latestInputByUser =
               IF Has(@, userId) THEN @ ELSE Put(@, userId, DefaultInput)]

\* stop() that drops the handle without clearTimeout
stop_keepTimer(c) ==
  [c EXCEPT !.o.running = FALSE,
            !.o.tickHandle = "null",
            !.o.lastTickTime = FALSE,
            !.o.lastBroadcastState = NoState]

stop(c) ==
  [c EXCEPT !.o.running = FALSE,
            !.o.timers = IF c.o.tickHandle = "live" THEN @ - 1 ELSE @,
            !.o.tickHandle = "null",
            !.o.lastTickTime = FALSE,
            !.o.lastBroadcastState = NoState]

\* a scheduler that sets no timer
scheduleNextTick_never(c) == c

scheduleNextTick(c) ==
  IF ~c.o.running \/ c.o.finished THEN c
  ELSE [c EXCEPT !.o.tickHandle = "live", !.o.timers = @ + 1]

\* a start guard that forgets the running flag
alreadyStarted_finishedOnly(o) == o.finished

\* the first guard of maybeStart
alreadyStarted(o) == o.running \/ o.finished

maybeStart(c) ==
  IF alreadyStarted(c.o) THEN c
  ELSE IF Len(c.o.connectedUserIds) < c.o.minPlayers THEN c
  ELSE
    LET players == Slice2(activePlayers(c.o))
        c1 == [c EXCEPT !.o.state = initState(players),
                        !.o.running = TRUE,
                        !.o.serverTick = 0,
                        !.o.networkTick = 0]
        c2 == broadcast(c1, "game_start", [player_ids |-> players])
        c3 == [c2 EXCEPT !.o.lastTickTime = TRUE]
    IN scheduleNextTick(c3)

\* a disconnect test that forgets the finished flag
belowMinimumMidMatch_refinish(o) ==
  o.running /\ Len(o.connectedUserIds) < o.minPlayers

\* removeSession: the match is on and too few participants remain
belowMinimumMidMatch(o) ==
  o.running /\ ~o.finished /\ Len(o.connectedUserIds) < o.minPlayers

\* an emptiness test that spares a room whose running flag is still set
noSessionsLeft_idleOnly(o) == ~o.running /\ Len(o.sessions) = 0

\* removeSession: the session table is empty
noSessionsLeft(o) == Len(o.sessions) = 0

removeSession(c, sessionId) ==
  LET present == SessionsHas(c.o.sessions, sessionId)
      uid == IF present THEN SessionsGet(c.o.sessions, sessionId).userId ELSE 0
      c1 == [c EXCEPT !.o.sessions = SessionsDelete(@, sessionId)]
      stillConnected == \E i \in 1..Len(c1.o.sessions) : c1.o.sessions[i].userId = uid
      c2 == IF present /\ ~stillConnected
            THEN [c1 EXCEPT !.o.connectedUserIds = SetDelete(@, uid),
                            !.o.lastSeqByUser = Del(@, uid),
                            !.o.ackSeqByPlayer = Del(@, uid),
                            !.o.smoothedLagByUser = Del(@, uid),
                            !.o.latestInputByUser = Del(@, uid)]
            ELSE c1
  IN
  IF belowMinimumMidMatch(c2.o)
  THEN LET c3 == [c2 EXCEPT !.o.finished = TRUE]
           c4 == broadcast(c3, "match_end",
                   [server_tick |-> c3.o.serverTick,
                    winner_ids |-> c3.o.connectedUserIds,
                    reason |-> "player_disconnected"])
           c5 == stop(c4)
       IN [c5 EXCEPT !.rooms = 0]
  ELSE IF noSessionsLeft(c2.o)
  THEN [stop(c2) EXCEPT !.rooms = 0]
  ELSE c2

\* prev * 0.8 + ageMs * 0.2, clamped to [0, MAX_LAG_COMP_MS]
SmoothLag(prev, ageMs) == Max(0, Min(MAX_LAG_COMP_MS, (prev * 8 + ageMs * 2) \div 10))

\* the record enqueueInput stores in the user's latest-input slot
storedInput(payload, lagCompMs) ==
  [turn |-> ToNumber(orZero(payload.turn)), thrust |-> ToNumber(orZero(payload.thrust)),
   fire |-> payload.fire,
   fire_pressed |-> payload.fire_pressed, lag_comp_ms |-> lagCompMs]

\* a sequence gate that lets a duplicate through
isStale_strict(safeSeq, lastSeq) == safeSeq < lastSeq

\* the sequence gate of enqueueInput
isStale(safeSeq, lastSeq) == safeSeq <= lastSeq

\* an admission test that forgets the finished flag
notRunning_ignoreFinished(o) == ~o.running

\* the first guard of enqueueInput
notRunning(o) == ~o.running \/ o.finished

\* an age test that takes a timestamp up to the limit ahead of the clock
isFreshSample_eitherSide(ageMs) == Abs(ageMs) <= MAX_CLIENT_INPUT_AGE_MS

\* enqueueInput: client_sent_at_ms > 0 and the age of the input is usable
isFreshSample(ageMs) == ageMs >= 0 /\ ageMs <= MAX_CLIENT_INPUT_AGE_MS

\* seq is a sequence number: Number(seq || 0) of a non-negative integer
enqueueInput(c, userId, seq, payload) ==
  IF notRunning(c.o)
  THEN [c EXCEPT !.ret = [accepted |-> FALSE, reason |-> "ROOM_NOT_RUNNING"]]
  ELSE
    LET safeSeq == seq
        lastSeq == Get(c.o.lastSeqByUser, userId, 0)
        smoothed == Get(c.o.smoothedLagByUser, userId, 0)
        ageMs == payload.client_age
        fresh == isFreshSample(ageMs)
        prev == IF smoothed # 0 THEN smoothed ELSE ageMs
        lagCompMs == IF fresh THEN SmoothLag(prev, ageMs) ELSE smoothed
    IN
    IF isStale(safeSeq, lastSeq)
    THEN [c EXCEPT !.ret = [accepted |-> FALSE, reason |-> "STALE_INPUT"]]
    ELSE [c EXCEPT !.o.lastSeqByUser = Put(@, userId, safeSeq),
                   !.o.ackSeqByPlayer = Put(@, userId, safeSeq),
                   !.o.smoothedLagByUser = IF fresh THEN Put(@, userId, lagCompMs) ELSE @,
                   !.o.latestInputByUser =
                      Put(@, userId, storedInput(payload, lagCompMs)),
                   !.ret = [accepted |-> TRUE, reason |-> "none"]]

handleMatchEnd(c, terminal) ==
  LET c1 == broadcast(c, "match_end",
              [server_tick |-> c.o.serverTick,
               winner_ids |-> terminal.winnerIds,
               reason |-> terminal.reason])
  IN
  IF ~c1.o.serviceId
  THEN stop(c1)                                  \* throw, catch, stop
  ELSE [c1 EXCEPT !.o.posts = @ + 1,             \* await submitMatchResult
                  !.o.webhook = "inflight"]

\* a handleMatchEnd whose failed submission escapes the try block
handleMatchEndResume_uncaught(c, ok) ==
  IF ok THEN [stop(c) EXCEPT !.o.webhook = "done"] ELSE [c EXCEPT !.o.webhook = "done"]

\* the part of handleMatchEnd after the await: submitMatchResult returned
\* (ok) or threw (non-2xx answer, transport error), which the catch block
\* logs; then stop
handleMatchEndResume(c, ok) == [stop(c) EXCEPT !.o.webhook = "done"]

\* a frame header built from the tick counter of the previous tick
payloadBase_previous(o) ==
  [server_tick |-> o.serverTick - 1, ack_seq_by_player |-> o.ackSeqByPlayer]

\* tick: the fields every state frame carries
payloadBase(o) ==
  [server_tick |-> o.serverTick, ack_seq_by_player |-> o.ackSeqByPlayer]

\* a full snapshot on the interval only
shouldSendFullSnapshot_intervalOnly(o) ==
  o.networkTick % FULL_SNAPSHOT_INTERVAL_NET_TICKS = 0

\* tick: a full snapshot when nothing was broadcast yet, and on the interval
shouldSendFullSnapshot(o) ==
  \/ o.lastBroadcastState = NoState
  \/ o.networkTick % FULL_SNAPSHOT_INTERVAL_NET_TICKS = 0

\* a tick loop that leaves the stored press as it is
clearPress_keep(input) == input

\* tick: if (input && input.fire_pressed) input.fire_pressed = false
clearPress(input) == [input EXCEPT !.fire_pressed = FALSE]

\* a tick loop that hands every ship the input of the first user
inputFor_first(inputs, pid) == inputs[CHOOSE u \in DOMAIN inputs : \A v \in DOMAIN inputs : u <= v]

\* tick: for (const [pid, input] of this.latestInputByUser.entries())
inputFor(inputs, pid) == inputs[pid]

\* a terminal tick that forgets to set the flag
setFinished_skip(c) == c

\* tick: this.finished = true
setFinished(c) == [c EXCEPT !.o.finished = TRUE]

tick(c, elapsedMs, dmg) ==
  IF ~c.o.running \/ c.o.finished \/ c.o.state = NoState THEN c
  ELSE
    LET actualDtMs == IF c.o.lastTickTime THEN Min(elapsedMs, SIM_TICK_MS * 2)
                      ELSE SIM_TICK_MS
        inputs == c.o.latestInputByUser
        \* Game.applyInput writes the ship's input slot, which the world of
        \* this model does not carry: the inputs set are kept in applied;
        \* the loop clears the stored press
        ships == c.o.state.players
        \* the rest of the handler, given the world st2 that Game.tick returns
        afterGameTick(st2) ==
         LET
        c1 == [c EXCEPT !.applied =
                           [u \in {v \in DOMAIN inputs : Has(ships, v) /\ ships[v].alive}
                              |-> applyInput(inputFor(inputs, u))],
                        !.o.lastTickTime = TRUE,
                        !.o.serverTick = @ + 1,
                        !.o.latestInputByUser =
                           [u \in DOMAIN inputs |-> clearPress(inputs[u])],
                        !.o.state = st2]
        networkState == toNetworkState(st2)
        c2 == [c1 EXCEPT !.o.networkTick = @ + 1]
        c3 == IF shouldSendFullSnapshot(c2.o)
              THEN broadcast(c2, "state_snapshot",
                             payloadBase(c2.o) @@ [full_state |-> networkState])
              ELSE broadcast(c2, "state_delta",
                             payloadBase(c2.o) @@ buildDelta(c2.o.lastBroadcastState, networkState))
        c4 == [c3 EXCEPT !.o.lastBroadcastState = networkState]
        c5 == IF c1.o.serverTick % NETWORK_EVERY_SIM_TICKS = 0 THEN c4 ELSE c1
        terminal == isTerminal(c5.o.state)
         IN IF ~terminal.terminal THEN scheduleNextTick(c5)
            ELSE handleMatchEnd(setFinished(c5), terminal)
    IN CHOOSE done \in {afterGameTick(st) : st \in {Game_tick(c.o.state, actualDtMs, dmg)}} : TRUE

(* ---- gateway: handleMessage and the socket events ---- *)
\* a socket delivers frames while its readyState is OPEN (a client sends
\* nothing after its leave)
CanReceive(s) == socks[s].status = "open"

NoRoom == [id |-> 0]

\* nothing references the object any more
Unreachable(o, reg) == reg # o.id /\ o.timers = 0 /\ o.webhook # "inflight"

Collected(o) ==
  [NewRoom(o.id, o.serviceId) EXCEPT !.finished = o.finished, !.webhook = o.webhook,
                                     !.matchEnds = o.matchEnds, !.posts = o.posts,
                                     !.collected = TRUE]

\* the handler is done: its object goes back to the heap, its frames to ev
Store(c, op, s) ==
  LET o == IF Unreachable(c.o, c.rooms) THEN Collected(c.o) ELSE c.o IN
  /\ rt' = IF c.o.id > Len(rt) THEN Append(rt, o) ELSE [rt EXCEPT ![c.o.id] = o]
  /\ rooms' = c.rooms
  /\ ev' = [op |-> op, sock |-> s, room |-> c.o.id, out |-> c.out, ret |-> c.ret,
            applied |-> c.applied,
            gone |-> IF Unreachable(c.o, c.rooms) /\ ~c.o.collected THEN c.o ELSE NoRoom]

NoEvent(op, s) ==
  [op |-> op, sock |-> s, room |-> 0, out |-> <<>>, ret |-> NoRet, applied |-> EmptyMap,
   gone |-> NoRoom]

Init ==
  /\ rooms = 0
  /\ rt = <<>>
  /\ socks = [s \in Sockets |->
               [status |-> "idle", userId |-> 0, sessionId |-> 0, closeCode |-> 0]]
  /\ ev = NoEvent("init", 0)

UsedUsers == {socks[s].userId : s \in Sockets} \ {0}
UsedSessions == {socks[s].sessionId : s \in Sockets} \ {0}

\* wss 'connection' with a token that validateAccessToken accepts: the session
\* is bound to the token's claims; no frame arrived before verification
Connect(s, userId, sessionId) ==
  /\ socks[s].status = "idle"
  /\ \A s2 \in Sockets : s2 < s => socks[s2].status # "idle"
  /\ IF sessionId \in UsedSessions
     THEN \E s2 \in Sockets : socks[s2].sessionId = sessionId /\ socks[s2].userId = userId
     ELSE /\ sessionId = Cardinality(UsedSessions) + 1
          /\ userId <= Cardinality(UsedUsers) + 1
  /\ socks' = [socks EXCEPT ![s] = [status |-> "open", userId |-> userId,
                                    sessionId |-> sessionId, closeCode |-> 0]]
  /\ ev' = NoEvent("connect", s)
  /\ UNCHANGED <<rooms, rt>>

\* handleMessage, type 'join', for the session bound to socket s; maxRooms
\* bounds the objects the registry creates
JoinBody(s, maxRooms) ==
  /\ rooms # 0 \/ Len(rt) < maxRooms
  /\ LET session == socks[s]
         o0 == IF rooms = 0 THEN NewRoom(Len(rt) + 1, TRUE) ELSE rt[rooms]
         c0 == Ctx(o0, o0.id)
         c1 == upsertSession(c0, session.sessionId, session.userId, s)
         waitingFor == Max(0, c1.o.minPlayers - Len(c1.o.connectedUserIds))
         c2 == sendJson(c1, s, "joined",
                 [player_id |-> session.userId, player_ids |-> activePlayers(c1.o),
                  waiting_for |-> waitingFor])
         c3 == broadcast(c2, "player_joined",
                 [player_id |-> session.userId, player_ids |-> activePlayers(c2.o),
                  waiting_for |-> waitingFor])
         c4 == maybeStart(c3)
     IN Store(c4, "join", s)

Join(s, maxRooms) ==
  /\ CanReceive(s)
  /\ JoinBody(s, maxRooms)
  /\ UNCHANGED socks

\* handleMessage, type 'input'
Input(s, seq, payload) ==
  /\ CanReceive(s)
  /\ rooms # 0
  /\ Store(enqueueInput(Ctx(rt[rooms], rooms), socks[s].userId, seq, payload), "input", s)
  /\ UNCHANGED socks

\* the body of ws.on('close'), which is also the first half of 'leave'
Depart(s, op) ==
  IF rooms # 0
  THEN LET c1 == removeSession(Ctx(rt[rooms], rooms), socks[s].sessionId)
           c2 == broadcast(c1, "player_left", [player_id |-> socks[s].userId])
       IN Store(c2, op, s)
  ELSE /\ ev' = NoEvent(op, s)
       /\ UNCHANGED <<rooms, rt>>

\* handleMessage, type 'leave'
Leave(s) ==
  /\ CanReceive(s)
  /\ Depart(s, "leave")
  /\ socks' = [socks EXCEPT ![s].status = "closing"]

\* ws 'close' event: the peer went away, or the close started by leave completed
Close(s) ==
  /\ socks[s].status \in {"open", "closing"}
  /\ Depart(s, "close")
  /\ socks' = [socks EXCEPT ![s].status = "closed"]

\* a pending setTimeout callback of room r fires and runs tick()
\* (the timer the handle refers to, or one the handle no longer refers to)
Tick(r, elapsedChoices, damageChoices) ==
  /\ r \in 1..Len(rt)
  /\ rt[r].timers > 0
  /\ \E elapsedMs \in elapsedChoices, dmg \in [ShipIds(rt[r]) -> damageChoices],
        viaHandle \in BOOLEAN :
       /\ viaHandle => rt[r].tickHandle = "live"
       /\ ~viaHandle => rt[r].timers > (IF rt[r].tickHandle = "live" THEN 1 ELSE 0)
       /\ LET o0 == [rt[r] EXCEPT !.timers = @ - 1,
                                  !.tickHandle = IF viaHandle THEN "stale" ELSE @]
          IN \E c \in {tick(Ctx(o0, rooms), elapsedMs, dmg)} : Store(c, "tick", 0)
  /\ UNCHANGED socks

\* the webhook POST of room r completes, with a 2xx answer or with an error
WebhookDone(r, ok) ==
  /\ r \in 1..Len(rt)
  /\ rt[r].webhook = "inflight"
  /\ Store(handleMatchEndResume(Ctx(rt[r], rooms), ok),
           IF ok THEN "webhook_done" ELSE "webhook_failed", 0)
  /\ UNCHANGED socks

\* the steps of a server that accepts nSockets sockets, creates maxRooms room
\* objects and receives the given sequence numbers and payloads
Step(nSockets, maxRooms, seqs, payloads, elapsedChoices, damageChoices) ==
  \/ \E s \in 1..nSockets, u \in UserIds, sid \in SessionIds : Connect(s, u, sid)
  \/ \E s \in Sockets : Join(s, maxRooms)
  \/ \E s \in Sockets, seq \in seqs, payload \in payloads : Input(s, seq, payload)
  \/ \E s \in Sockets : Leave(s)
  \/ \E s \in Sockets : Close(s)
  \/ \E r \in 1..maxRooms : Tick(r, elapsedChoices, damageChoices)
  \/ \E r \in 1..maxRooms, ok \in BOOLEAN : WebhookDone(r, ok)

PlainPayload == [turn |-> 0, thrust |-> 0, fire |-> FALSE, fire_pressed |-> FALSE,
                 fire_seq |-> 0, client_age |-> -1]

Next == Step(NumSockets, MaxRooms, 0..MaxSeq, Payloads, ElapsedChoices, DamageChoices)

Spec == Init /\ [][Next]_vars

(* ---- helpers of the properties ---- *)
Rooms == 1..Len(rt)
\* room object r after the step, also when the step dropped it
After(r) == IF ev'.gone.id = r THEN ev'.gone ELSE rt'[r]
FramesOf(e, r, types) == {i \in 1..Len(e.out) : e.out[i].room = r /\ e.out[i].type \in types}
StateFrames == {"state_snapshot", "state_delta"}

(* C1: enqueueInput on a running, unfinished room accepts the input exactly
   when seq is greater than lastSeqByUser[userId]; an accepted input sets
   ackSeqByPlayer[userId] to seq, above its former value; a stale or duplicate
   input is rejected with STALE_INPUT and leaves lastSeqByUser, ackSeqByPlayer,
   smoothedLagByUser and latestInputByUser as they were. *)
C1_InputAdmission ==
  [][\A s \in Sockets, seq \in 0..MaxSeq, payload \in Payloads :
       (ev'.op = "input" /\ ev'.sock = s /\ rt[rooms].running /\ ~rt[rooms].finished
          /\ Input(s, seq, payload)) =>
         LET o == rt[rooms]
             o2 == rt'[rooms]
             u == socks[s].userId
         IN /\ ev'.ret.accepted <=> seq > Get(o.lastSeqByUser, u, 0)
            /\ ev'.ret.accepted =>
                 /\ o2.lastSeqByUser[u] = seq
                 /\ o2.ackSeqByPlayer[u] = seq
                 /\ o2.ackSeqByPlayer[u] > Get(o.ackSeqByPlayer, u, 0)
            /\ ~ev'.ret.accepted =>
                 /\ ev'.ret.reason = "STALE_INPUT"
                 /\ o2.lastSeqByUser = o.lastSeqByUser
                 /\ o2.ackSeqByPlayer = o.ackSeqByPlayer
                 /\ o2.smoothedLagByUser = o.smoothedLagByUser
                 /\ o2.latestInputByUser = o.latestInputByUser]_vars

\* a duplicate of an accepted sequence number has just been rejected
C1_Witness ==
  /\ ev.op = "input"
  /\ ev.ret.reason = "STALE_INPUT"
  /\ rooms # 0
  /\ Get(rt[rooms].lastSeqByUser, socks[ev.sock].userId, 0) >= 1
  /\ Get(rt[rooms].smoothedLagByUser, socks[ev.sock].userId, 0) > 0

(* C2: ackSeqByPlayer[user] of a room never decreases, whatever joins, inputs,
   leaves and socket closes happen. *)
C2_AckMonotone ==
  [][\A r \in Rooms : \A u \in DOMAIN rt[r].ackSeqByPlayer :
       u \in DOMAIN After(r).ackSeqByPlayer =>
         After(r).ackSeqByPlayer[u] >= rt[r].ackSeqByPlayer[u]]_vars

(* C3: a room never has more than one tick timer pending (a tick body runs to
   completion, so no two run at once). *)
C3_OneScheduler == \A r \in Rooms : rt[r].timers <= 1

\* a join reached a room that is running and has already ticked
C3_Witness ==
  /\ ev.op = "join"
  /\ ev.room \in Rooms
  /\ rt[ev.room].running /\ ~rt[ev.room].finished
  /\ rt[ev.room].serverTick >= 1
  /\ rt[ev.room].timers = 1

(* C4: a room broadcasts match_end at most once and issues at most one
   webhook POST. *)
C4_TerminatesOnce == \A r \in Rooms : rt[r].matchEnds <= 1 /\ rt[r].posts <= 1

\* a session left while the webhook of the finished match was in flight
C4_Witness ==
  /\ ev.op \in {"leave", "close"}
  /\ ev.room \in Rooms
  /\ rt[ev.room].webhook = "inflight"
  /\ rt[ev.room].matchEnds = 1
  /\ rt[ev.room].posts = 1
  /\ Len(rt[ev.room].connectedUserIds) < MIN_PLAYERS

(* C5: a room whose world is terminal is finished; a finished room stays
   finished, has no tick timer pending, never changes serverTick or the world
   again, and after its match_end it broadcasts no state_snapshot or
   state_delta. *)
C5_FinishedIsFinal ==
  [][\A r \in Rooms :
       /\ (~rt'[r].collected /\ rt'[r].state.phase = "finished") => rt'[r].finished
       /\ (rt[r].finished /\ ~rt[r].collected) =>
            /\ After(r).finished
            /\ After(r).timers = 0
            /\ After(r).serverTick = rt[r].serverTick
            /\ After(r).state = rt[r].state
            /\ rt[r].matchEnds >= 1 => FramesOf(ev', r, StateFrames) = {}]_vars

\* the webhook of a match that a tick found terminal has completed
C5_Witness ==
  /\ ev.op = "webhook_done"
  /\ rt[ev.room].finished
  /\ rt[ev.room].state.phase = "finished"
  /\ rt[ev.room].serverTick >= 1
  /\ rt[ev.room].matchEnds = 1

\* a leave or close step that takes room r, running and unfinished, below the
\* minimum number of connected users
MidMatchDisconnect(r) ==
  /\ ev'.op \in {"leave", "close"}
  /\ ev'.room = r
  /\ rt[r].running /\ ~rt[r].finished
  /\ Len(rt[r].connectedUserIds) >= MIN_PLAYERS
  /\ Len(After(r).connectedUserIds) < MIN_PLAYERS

(* C6: when removeSession takes a running, unfinished room below two connected
   users, the same step broadcasts match_end with reason player_disconnected
   and winner_ids equal to the users still connected, stops the tick scheduler
   and removes the room from the registry. *)
C6_DisconnectEndsMatch ==
  [][\A r \in Rooms :
       MidMatchDisconnect(r) =>
         /\ \E i \in FramesOf(ev', r, {"match_end"}) :
               /\ ev'.out[i].payload.reason = "player_disconnected"
               /\ ev'.out[i].payload.winner_ids = After(r).connectedUserIds
         /\ ~After(r).running
         /\ After(r).tickHandle = "null"
         /\ After(r).timers = 0
         /\ rooms' # r]_vars

\* a socket closed in the middle of a match that had ticked; one user remains
C6_Witness ==
  /\ ev.op = "close"
  /\ ev.room \in Rooms
  /\ ev.gone.id = ev.room
  /\ ev.gone.serverTick >= 1
  /\ ev.gone.matchEnds = 1
  /\ Len(ev.gone.connectedUserIds) = 1
  /\ \E i \in FramesOf(ev, ev.room, {"match_end"}) :
        ev.out[i].payload.reason = "player_disconnected"

(* C7: when a mid-match disconnect ends the match, every socket still in the
   room's session table is closed with code 4001, and the session table and
   the connected-user set of the room are emptied. *)
C7_DisconnectClosesSockets ==
  [][\A r \in Rooms :
       MidMatchDisconnect(r) =>
         /\ \A i \in 1..Len(rt[r].sessions) :
               rt[r].sessions[i].sessionId # socks[ev'.sock].sessionId =>
                 socks'[rt[r].sessions[i].ws].closeCode = 4001
         /\ After(r).sessions = <<>>
         /\ After(r).connectedUserIds = <<>>]_vars

(* C8: no registered room has an empty session table: when the last session
   of a room is removed, whether the room is waiting, running or finished, its
   tick scheduler is stopped and the room is deleted from the registry in the
   same step. *)
C8_EmptyRoomsTornDown ==
  [][/\ rooms' # 0 => Len(rt'[rooms'].sessions) > 0
     /\ \A r \in Rooms :
          (/\ ev'.op \in {"leave", "close"}
           /\ ev'.room = r
           /\ Len(rt[r].sessions) > 0
           /\ Len(After(r).sessions) = 0) =>
            /\ ~After(r).running
            /\ After(r).tickHandle = "null"
            /\ After(r).timers = 0
            /\ rooms' # r]_vars

\* the last session left a room whose match a tick had finished and whose
\* webhook was still in flight
C8_Witness ==
  /\ ev.op \in {"leave", "close"}
  /\ ev.room \in Rooms
  /\ rooms # ev.room
  /\ rt[ev.room].webhook = "inflight"
  /\ rt[ev.room].finished
  /\ Len(rt[ev.room].sessions) = 0

(* C9: once the webhook submission of a match that ended by elimination or
   timeout has completed, the room is no longer in the registry. *)
C9_FinishedRoomDeregistered ==
  [][\A r \in Rooms :
       (/\ ev'.op = "webhook_done"
        /\ ev'.room = r
        /\ rt[r].state.reason \in {"elimination", "timeout"}) =>
         rooms' # r]_vars

(* C10: a join whose session id is already in the room's session table
   answers joined with the player_ids and waiting_for of the room as it is,
   and leaves the session table, the connected users, lastSeqByUser,
   ackSeqByPlayer, latestInputByUser, the running and finished flags and the
   scheduler unchanged. *)
C10_JoinIdempotent ==
  [][\A s \in Sockets :
       (/\ ev'.op = "join"
        /\ ev'.sock = s
        /\ rooms # 0
        /\ SessionsHas(rt[rooms].sessions, socks[s].sessionId)) =>
         LET o == rt[rooms]
             o2 == rt'[rooms]
             key(e) == <<e.sessionId, e.userId>>
         IN /\ [i \in 1..Len(o2.sessions) |-> key(o2.sessions[i])]
                 = [i \in 1..Len(o.sessions) |-> key(o.sessions[i])]
            /\ o2.connectedUserIds = o.connectedUserIds
            /\ o2.lastSeqByUser = o.lastSeqByUser
            /\ o2.ackSeqByPlayer = o.ackSeqByPlayer
            /\ o2.latestInputByUser = o.latestInputByUser
            /\ o2.running = o.running /\ o2.finished = o.finished
            /\ o2.timers = o.timers /\ o2.tickHandle = o.tickHandle
            /\ \A i \in FramesOf(ev', rooms, {"joined"}) :
                 /\ ev'.out[i].payload.player_ids = o.connectedUserIds
                 /\ ev'.out[i].payload.waiting_for
                      = Max(0, o.minPlayers - Len(o.connectedUserIds))]_vars

(* C11: a join that reconnects a session id already in the room's session
   table (held there by another socket) leaves that session id in the table
   exactly once and sends no player_joined frame to anyone. *)
C11_ReconnectNoDuplicate ==
  [][\A s \in Sockets :
       (/\ ev'.op = "join"
        /\ ev'.sock = s
        /\ rooms # 0
        /\ SessionsHas(rt[rooms].sessions, socks[s].sessionId)
        /\ SessionsGet(rt[rooms].sessions, socks[s].sessionId).ws # s) =>
         /\ Cardinality({i \in 1..Len(rt'[rooms].sessions) :
                           rt'[rooms].sessions[i].sessionId = socks[s].sessionId}) = 1
         /\ \A i \in FramesOf(ev', rooms, {"player_joined"}) : ev'.out[i].to = {}]_vars

(* ---- gateway with the token verification in flight ---- *)
\* The specification SpecAuth follows a socket from its acceptance: the token
\* is verified asynchronously, frames that arrive meanwhile go to the
\* pre-auth buffer, and the buffer is flushed when the verification succeeds.
\* A socket record carries, besides the session, the token it came with,
\* authComplete, the number of frames that arrived on it, the buffered frames
\* and the list of its frames that handleMessage has dispatched. A frame is
\* numbered by its arrival on the socket; an input frame carries that number
\* as its seq.
MaxFrames == 2           \* frames a client sends on one socket

Tokens == {"valid", "invalid", "missing"}
FrameTypes == {"join", "input", "leave"}
AuthRooms == NumSockets * MaxFrames

ErrorFrame(s, code) == [type |-> "error", room |-> 0, to |-> {s}, payload |-> [code |-> code]]

\* the flush loop of a socket is running: Node runs it to completion, so no
\* other handler runs meanwhile
Flushing(s) == socks[s].status # "idle" /\ socks[s].flushing
NoFlush == \A s \in Sockets : ~Flushing(s)

\* wss 'connection': without a token the socket is refused at once
Accept(s, token) ==
  /\ NoFlush
  /\ socks[s].status = "idle"
  /\ \A s2 \in Sockets : s2 < s => socks[s2].status # "idle"
  /\ socks' = [socks EXCEPT ![s] =
       [status |-> IF token = "missing" THEN "closing" ELSE "open",
        userId |-> 0, sessionId |-> 0, closeCode |-> 0,
        token |-> token, verifying |-> token # "missing", authComplete |-> FALSE,
        arrived |-> 0, buffered |-> <<>>, dispatched |-> <<>>, flushing |-> FALSE]]
  /\ ev' = [NoEvent("accept", s) EXCEPT
              !.out = IF token = "missing" THEN <<ErrorFrame(s, "NO_TOKEN")>> ELSE <<>>]
  /\ UNCHANGED <<rooms, rt>>

\* handleMessage for one frame of socket s: its effect on the rooms
HandleMessage(s, frame) ==
  IF frame.type = "join" THEN JoinBody(s, AuthRooms)
  ELSE IF frame.type = "input"
  THEN IF rooms # 0
       THEN Store(enqueueInput(Ctx(rt[rooms], rooms), socks[s].userId, frame.id,
                               PlainPayload), "input", s)
       ELSE ev' = NoEvent("input", s) /\ UNCHANGED <<rooms, rt>>
  ELSE Depart(s, "leave")

\* readyState after the frame: 'leave' ends with ws.close()
StatusAfter(status, frame) ==
  IF frame.type = "leave" /\ status = "open" THEN "closing" ELSE status

\* ws.on('message'): buffered while authComplete is false, dispatched otherwise
OnMessage(s, type) ==
  /\ NoFlush
  /\ socks[s].status \in {"open", "closing"}
  /\ CanReceive(s) \/ ~socks[s].authComplete
  /\ socks[s].arrived < MaxFrames
  /\ LET frame == [id |-> socks[s].arrived + 1, type |-> type, preAuth |-> ~socks[s].authComplete]
     IN IF ~socks[s].authComplete
        THEN /\ socks' = [socks EXCEPT ![s].arrived = @ + 1,
                                       ![s].buffered = Append(@, frame)]
             /\ ev' = NoEvent("buffer", s)
             /\ UNCHANGED <<rooms, rt>>
        ELSE /\ HandleMessage(s, frame)
             /\ socks' = [socks EXCEPT ![s].arrived = @ + 1,
                                       ![s].dispatched = Append(@, frame),
                                       ![s].status = StatusAfter(@, frame)]

\* validateAccessToken resolves: the session is bound to the token's claims
\* and, if the socket is still open, the flush loop starts
Verified(s) ==
  /\ NoFlush
  /\ socks[s].status # "idle"
  /\ socks[s].verifying /\ socks[s].token = "valid"
  /\ socks' = [socks EXCEPT ![s].verifying = FALSE,
                            ![s].authComplete = TRUE,
                            ![s].userId = s,
                            ![s].sessionId = s,
                            ![s].flushing = socks[s].status = "open"
                                            /\ socks[s].buffered # <<>>]
  /\ ev' = NoEvent("verified", s)
  /\ UNCHANGED <<rooms, rt>>

\* a flush that takes the newest frame first
flushIndex_newest(buffered) == Len(buffered)

\* for (const msg of buffered): the frame the loop takes next
flushIndex(buffered) == 1

\* one iteration of the flush loop; buffered.length = 0 after the last one
Flush(s) ==
  /\ Flushing(s)
  /\ LET buf == socks[s].buffered
         i == flushIndex(buf)
         rest == SubSeq(buf, 1, i - 1) \o SubSeq(buf, i + 1, Len(buf))
     IN /\ HandleMessage(s, buf[i])
        /\ socks' = [socks EXCEPT ![s].buffered = rest,
                                  ![s].dispatched = Append(@, buf[i]),
                                  ![s].status = StatusAfter(@, buf[i]),
                                  ![s].flushing = rest # <<>>]

\* validateAccessToken rejects: error frame, ws.close()
Rejected(s) ==
  /\ NoFlush
  /\ socks[s].status # "idle"
  /\ socks[s].verifying /\ socks[s].token = "invalid"
  /\ socks' = [socks EXCEPT ![s].verifying = FALSE,
                            ![s].status = IF @ = "open" THEN "closing" ELSE @]
  /\ ev' = [NoEvent("rejected", s) EXCEPT
              !.out = IF socks[s].status = "open"
                      THEN <<ErrorFrame(s, "INVALID_TOKEN")>> ELSE <<>>]
  /\ UNCHANGED <<rooms, rt>>

\* ws 'close': nothing to do for a session that was never bound
Closed(s) ==
  /\ NoFlush
  /\ socks[s].status \in {"open", "closing"}
  /\ IF socks[s].sessionId # 0
     THEN Depart(s, "close")
     ELSE ev' = NoEvent("close", s) /\ UNCHANGED <<rooms, rt>>
  /\ socks' = [socks EXCEPT ![s].status = "closed"]

TimerFires(r) == NoFlush /\ Tick(r, {40}, {0})
WebhookReturns(r) == NoFlush /\ \E ok \in BOOLEAN : WebhookDone(r, ok)

NextAuth ==
  \/ \E s \in 1..NumSockets, token \in Tokens : Accept(s, token)
  \/ \E s \in Sockets, type \in FrameTypes : OnMessage(s, type)
  \/ \E s \in Sockets : Verified(s)
  \/ \E s \in Sockets : Flush(s)
  \/ \E s \in Sockets : Rejected(s)
  \/ \E s \in Sockets : Closed(s)
  \/ \E r \in 1..AuthRooms : TimerFires(r)
  \/ \E r \in 1..AuthRooms : WebhookReturns(r)

SpecAuth == Init /\ [][NextAuth]_vars

FrameIds(frames) == [i \in 1..Len(frames) |-> frames[i].id]

(* C12: a frame that arrives before the verification has completed is
   buffered and not dispatched; the frames of a socket are dispatched in the
   order of their arrival, the buffered ones before any later one; a socket
   whose token is missing or rejected never has a frame dispatched and never
   enters a room; a buffer is left unflushed only if the socket was no
   longer open when the verification succeeded. *)
C12_PreAuthBuffer ==
  \A s \in Sockets : socks[s].status # "idle" =>
    /\ FrameIds(socks[s].dispatched \o socks[s].buffered)
         = [i \in 1..socks[s].arrived |-> i]
    /\ \A i \in 1..Len(socks[s].buffered) : socks[s].buffered[i].preAuth
    /\ \A i, j \in 1..Len(socks[s].dispatched) :
         (i < j /\ socks[s].dispatched[j].preAuth) => socks[s].dispatched[i].preAuth
    /\ ~socks[s].authComplete =>
         /\ socks[s].dispatched = <<>>
         /\ \A r \in Rooms : \A i \in 1..Len(rt[r].sessions) : rt[r].sessions[i].ws # s
    /\ (socks[s].authComplete /\ ~socks[s].flushing /\ socks[s].buffered # <<>>) =>
         socks[s].status = "closed"

\* a socket whose buffered join and input were flushed in that order, the
\* input being accepted by the running room, next to a socket with a
\* rejected token that holds a buffered frame
C12_Witness ==
  /\ ev.op = "input"
  /\ ev.ret.accepted
  /\ Len(socks[ev.sock].dispatched) = 2
  /\ socks[ev.sock].dispatched[1].type = "join"
  /\ socks[ev.sock].dispatched[2].preAuth

\* the steering a stored input and a ship input have in common
Steer(input) == [turn |-> input.turn, thrust |-> input.thrust, fire |-> input.fire]
Slot(o, u) == o.latestInputByUser[u]

(* C13: a room stores one input per user: an accepted input replaces the
   sender's slot with its payload and touches no other slot, a handler adds
   no slot but that of the user who joins or sends the input (a user has a
   slot, with the default input, from the join on), no other handler changes
   the turn, thrust or fire of a stored input, and a tick hands every live
   ship exactly the stored input of its user. *)
C13_LatestInputWins ==
  [][/\ \A s \in Sockets, seq \in 0..MaxSeq, payload \in Payloads :
          (ev'.op = "input" /\ ev'.sock = s /\ ev'.ret.accepted
             /\ Input(s, seq, payload)) =>
            LET o == rt[rooms]
                o2 == rt'[rooms]
                u == socks[s].userId
            IN /\ DOMAIN o2.latestInputByUser = DOMAIN o.latestInputByUser \cup {u}
               /\ Steer(Slot(o2, u)) = Steer(payload)
               /\ Slot(o2, u).fire_pressed = payload.fire_pressed
               /\ \A v \in DOMAIN o.latestInputByUser \ {u} : Slot(o2, v) = Slot(o, v)
     /\ \A r \in Rooms :
          /\ DOMAIN After(r).latestInputByUser \subseteq
               DOMAIN rt[r].latestInputByUser \cup
                 (IF ev'.op \in {"join", "input"} /\ ev'.room = r
                  THEN {socks[ev'.sock].userId} ELSE {})
          /\ ev'.op # "input" =>
               \A u \in DOMAIN rt[r].latestInputByUser \cap DOMAIN After(r).latestInputByUser :
                 Steer(Slot(After(r), u)) = Steer(Slot(rt[r], u))
          /\ (ev'.op = "tick" /\ ev'.room = r) =>
               /\ DOMAIN ev'.applied =
                    {u \in DOMAIN rt[r].latestInputByUser \cap ShipIds(rt[r]) :
                       rt[r].state.players[u].alive}
               /\ \A u \in DOMAIN ev'.applied :
                    /\ Steer(ev'.applied[u]) = Steer(Slot(rt[r], u))
                    /\ ev'.applied[u].firePressed = Slot(rt[r], u).fire_pressed
                    /\ ev'.applied[u].lagCompMs = Slot(rt[r], u).lag_comp_ms]_vars

\* a tick applied the second accepted input of a user, which had replaced the
\* first one (the latency estimate of the first one is kept)
C13_Witness ==
  /\ ev.op = "tick"
  /\ ev.room \in Rooms
  /\ \E u \in DOMAIN ev.applied :
       /\ ev.applied[u].turn = 0
       /\ ev.applied[u].lagCompMs = 40
       /\ Get(rt[ev.room].lastSeqByUser, u, 0) = 2

(* C14: a fire press is presented to the simulation in at most one tick: a
   tick presents fire-pressed only for a stored press, every tick leaves all
   stored inputs of the room with fire_pressed false, and only an accepted
   input of the user sets fire_pressed of the user's slot again. *)
C14_FirePressEdge ==
  [][\A r \in Rooms :
       /\ (ev'.op = "tick" /\ ev'.room = r /\ rt[r].running /\ ~rt[r].finished) =>
            /\ \A u \in DOMAIN ev'.applied :
                 ev'.applied[u].firePressed => Slot(rt[r], u).fire_pressed
            /\ \A u \in DOMAIN After(r).latestInputByUser :
                 ~Slot(After(r), u).fire_pressed
       /\ \A u \in DOMAIN rt[r].latestInputByUser \cap DOMAIN After(r).latestInputByUser :
            (~Slot(rt[r], u).fire_pressed /\ Slot(After(r), u).fire_pressed) =>
              /\ ev'.op = "input"
              /\ ev'.ret.accepted
              /\ socks[ev'.sock].userId = u]_vars

\* the second tick after a press re-applied the held input without the press
C14_Witness ==
  /\ ev.op = "tick"
  /\ ev.room \in Rooms
  /\ rt[ev.room].serverTick = 2
  /\ \E u \in DOMAIN ev.applied :
       /\ ev.applied[u].fire
       /\ ~ev.applied[u].firePressed
       /\ Get(rt[ev.room].lastSeqByUser, u, 0) = 1

(* C15: enqueueInput on a room that is not running (not started, or stopped)
   or that is finished is rejected with ROOM_NOT_RUNNING and changes nothing
   of the room: sequences, acknowledgements, latency and input slots stay. *)
C15_NotRunningRejects ==
  [][\A s \in Sockets, seq \in 0..MaxSeq, payload \in Payloads :
       (/\ ev'.op = "input"
        /\ ev'.sock = s
        /\ ~rt[rooms].running \/ rt[rooms].finished
        /\ Input(s, seq, payload)) =>
         /\ ~ev'.ret.accepted
         /\ ev'.ret.reason = "ROOM_NOT_RUNNING"
         /\ rooms' = rooms
         /\ rt'[rooms] = rt[rooms]]_vars

\* an input with a fresh sequence number reached a room whose match is over
\* and whose scheduler has been stopped
C15_Witness ==
  /\ ev.op = "input"
  /\ ev.ret.reason = "ROOM_NOT_RUNNING"
  /\ rooms = ev.room
  /\ rooms # 0
  /\ rt[rooms].finished
  /\ ~rt[rooms].running
  /\ rt[rooms].webhook = "done"
  /\ Get(rt[rooms].lastSeqByUser, socks[ev.sock].userId, 0) = 0

(* C16: when enqueueInput rejects an input, the gateway sends the sender an
   error frame with code INPUT_REJECTED that carries the reason. *)
C16_RejectionReply ==
  [][(ev'.op = "input" /\ ev'.room # 0 /\ ~ev'.ret.accepted) =>
       \E i \in 1..Len(ev'.out) :
         /\ ev'.out[i].type = "error"
         /\ ev'.out[i].to = {ev'.sock}
         /\ ev'.out[i].payload.code = "INPUT_REJECTED"
         /\ ev'.out[i].payload.reason = ev'.ret.reason]_vars

(* ---- a server that accepts one socket more ---- *)
\* three sockets, with one input payload, one tick interval and no damage
Next3 == Step(NumSockets + 1, MaxRooms, {1}, {PlainPayload}, {40}, {0})

Spec3 == Init /\ [][Next3]_vars

(* C17: a room never has more than two participants: its set of connected
   user ids has at most 2 members in every reachable state. *)
C17_AtMostTwoParticipants == \A r \in Rooms : Len(rt[r].connectedUserIds) <= 2

\* the step is a tick of room r that gets past the guard of tick()
ExecutedTick(r) ==
  /\ ev'.op = "tick"
  /\ ev'.room = r
  /\ rt[r].running /\ ~rt[r].finished /\ rt[r].state # NoState

(* C18: serverTick counts the executed ticks of a room: it is 0 when the
   match starts, an executed tick adds exactly 1 and sends its state frame
   with server_tick equal to the new count, no other step changes it, and it
   equals the tick counter of the world; so the server_tick values of the
   successive state frames of a room are strictly increasing. *)
C18_ServerTickCounts ==
  [][\A r \in Rooms : ~rt[r].collected =>
       /\ ExecutedTick(r) =>
            /\ After(r).serverTick = rt[r].serverTick + 1
            /\ After(r).state.tick = After(r).serverTick
            /\ FramesOf(ev', r, StateFrames) # {}
            /\ \A i \in FramesOf(ev', r, StateFrames) :
                 /\ ev'.out[i].payload.server_tick = After(r).serverTick
                 /\ ev'.out[i].payload.server_tick > rt[r].serverTick
       /\ ~ExecutedTick(r) =>
            /\ After(r).serverTick = rt[r].serverTick
            /\ FramesOf(ev', r, StateFrames) = {}
       /\ (~rt[r].running /\ After(r).running) =>
            /\ After(r).serverTick = 0
            /\ After(r).state.tick = 0]_vars

\* the second tick of a match has sent its state frame with server_tick 2
C18_Witness ==
  /\ ev.op = "tick"
  /\ ev.room \in Rooms
  /\ rt[ev.room].serverTick = 2
  /\ \E i \in FramesOf(ev, ev.room, StateFrames) : ev.out[i].payload.server_tick = 2

(* C19: every network tick of a room (every executed tick, as
   NETWORK_EVERY_SIM_TICKS is 1) broadcasts exactly one state frame. It is a
   state_snapshot carrying the projected world when the match has broadcast
   no state yet (this is the first network tick) or when the network tick
   count is a multiple of FULL_SNAPSHOT_INTERVAL_NET_TICKS; otherwise it is a
   state_delta whose body is buildDelta of the projection of the world the
   preceding frame was taken from and the projection of the world now. The
   room remembers the projection it sent. *)
C19_OneStateFramePerNetworkTick ==
  [][\A r \in Rooms : (~rt[r].collected /\ ExecutedTick(r)) =>
       LET frames == FramesOf(ev', r, StateFrames)
           first == rt[r].networkTick = 0
           onInterval == (rt[r].networkTick + 1) % FULL_SNAPSHOT_INTERVAL_NET_TICKS = 0
           before == toNetworkState(rt[r].state)
           now == toNetworkState(After(r).state)
       IN /\ Cardinality(frames) = 1
          /\ After(r).networkTick = rt[r].networkTick + 1
          /\ After(r).lastBroadcastState = now
          /\ first <=> rt[r].lastBroadcastState = NoState
          /\ ~first => rt[r].lastBroadcastState = before
          /\ \A i \in frames :
               IF first \/ onInterval
               THEN /\ ev'.out[i].type = "state_snapshot"
                    /\ ev'.out[i].payload.full_state = now
               ELSE /\ ev'.out[i].type = "state_delta"
                    /\ ev'.out[i].payload.changed_entities
                         = buildDelta(before, now).changed_entities
                    /\ ev'.out[i].payload.removed_entities
                         = buildDelta(before, now).removed_entities]_vars

\* a third network tick has sent a state_delta in which a ship's hit points changed
C19_Witness ==
  /\ ev.op = "tick"
  /\ ev.room \in Rooms
  /\ rt[ev.room].networkTick = 3
  /\ \E i \in FramesOf(ev, ev.room, {"state_delta"}) :
       /\ Has(ev.out[i].payload.changed_entities, "players")
       /\ Has(ev.out[i].payload.changed_entities, "tick")

(* ---- the world with projectiles and pickups, and the client's merge ---- *)
DeltaTicks == 3           \* simulation ticks of a world in SpecDelta
ProjectileTtlTicks == 2   \* CONFIG.projectileTtlMs in tick periods (1200 ms in CONFIG)
PickupEvery == 2          \* CONFIG.pickupSpawnEveryTicks (120 in CONFIG)

CONFIG_projectileTtlMs == ProjectileTtlTicks * SIM_TICK_MS
CONFIG_pickupSpawnEveryTicks == PickupEvery
CONFIG_maxPickups == 3
CONFIG_projectileDamage == 30

\* spawnProjectile: the id is made of state.tick, the owner and a random
\* suffix; fireSeq 0 stands for null, which leaves the field undefined
spawnProjectile(state, ownerId, fireSeq, suffix) ==
  LET pr == [id |-> <<state.tick, ownerId, suffix>>, ownerId |-> ownerId,
             x |-> 0, ttlMs |-> CONFIG_projectileTtlMs]
  IN [state EXCEPT !.projectiles =
        Append(@, IF fireSeq > 0 THEN pr @@ [fireSeq |-> fireSeq] ELSE pr)]

\* the firing step of Game.tick: the ships of shots are those whose input
\* has firePressed with the cooldown run out, visited in the order of
\* state.players
RECURSIVE fireAll(_, _, _, _, _)
fireAll(state, pids, shots, fireSeq, suffix) ==
  IF Len(pids) = 0 THEN state
  ELSE LET pid == Head(pids)
           s2 == IF pid \in shots /\ state.players[pid].alive
                 THEN spawnProjectile(state, pid, fireSeq, suffix)
                 ELSE state
       IN fireAll(s2, Tail(pids), shots, fireSeq, suffix)

\* updateProjectiles: a projectile whose time to live ran out is dropped, the
\* others move; hit is the position of the one projectile that meets a ship
\* in this tick (0 for none), which is dropped too; the rest is kept in order
updateProjectiles(state, dtMs, hit) ==
  LET moved == [i \in DOMAIN state.projectiles |->
                  [state.projectiles[i] EXCEPT !.ttlMs = @ - dtMs, !.x = @ + 1]]
      keptAt == {i \in DOMAIN moved : moved[i].ttlMs > 0 /\ i # hit}
      Pick[i \in 0..Len(moved)] ==
        IF i = 0 THEN <<>>
        ELSE IF i \in keptAt THEN Append(Pick[i - 1], moved[i]) ELSE Pick[i - 1]
  IN [state EXCEPT !.projectiles = Pick[Len(moved)]]

\* the ship a projectile at position hit damages: the first alive ship that
\* is not its owner
hitDamage(state, dtMs, hit) ==
  [p \in DOMAIN state.players |->
     IF /\ hit \in DOMAIN state.projectiles
        /\ state.projectiles[hit].ttlMs - dtMs > 0
        /\ LET others == SelectSeq(state.order, LAMBDA q :
                            state.players[q].alive /\ q # state.projectiles[hit].ownerId)
           IN Len(others) > 0 /\ others[1] = p
     THEN CONFIG_projectileDamage * HpUnit ELSE 0]

spawnPickups(state) ==
  IF state.tick % CONFIG_pickupSpawnEveryTicks # 0 THEN state
  ELSE IF Len(state.pickups) >= CONFIG_maxPickups THEN state
  ELSE [state EXCEPT !.pickups =
          Append(@, [id |-> <<"pu", state.tick, Len(state.pickups)>>,
                     x |-> state.tick, type |-> "bomb"])]

\* collectPickups: taken is the position of the pickup a ship reaches in
\* this tick (0 for none); the rest is kept in order
collectPickups(state, taken) ==
  [state EXCEPT !.pickups =
     SelectSeq(@, LAMBDA pu : ~(taken \in DOMAIN state.pickups /\ state.pickups[taken] = pu))]

\* Game.tick with its projectiles and pickups
Game_tickEntities(state, dtMs, shots, fireSeq, suffix, hit, taken) ==
  IF state.phase # "playing" THEN state
  ELSE
    LET s1 == [state EXCEPT !.tick = @ + 1]
        s2 == fireAll(s1, s1.order, shots, fireSeq, suffix)
        s3 == updateProjectiles(s2, dtMs, hit)
        s4 == collectPickups(spawnPickups(s3), taken)
        g == Game_tick(state, dtMs, hitDamage(s2, dtMs, hit))
    IN [g EXCEPT !.projectiles = s4.projectiles, !.pickups = s4.pickups]

(* ---- client: src/app/layout.tsx ---- *)
toProjectile(raw) ==
  LET base == [id |-> raw.id, x |-> raw.x, ownerId |-> raw.ownerId, ttlMs |-> raw.ttlMs] IN
  IF Has(raw, "fireSeq") /\ raw.fireSeq > 0 THEN base @@ [fireSeq |-> raw.fireSeq] ELSE base

toPickup(x) == [id |-> x.id, x |-> x.x, type |-> x.type]

cloneWorld(state) ==
  LET players == Get(state, "players", EmptyMap)
      projectiles == Get(state, "projectiles", <<>>)
      pickups == Get(state, "pickups", <<>>)
  IN [phase |-> Get(state, "phase", "playing"),
      tick |-> Get(state, "tick", 0),
      remainingMs |-> Get(state, "remainingMs", 0),
      players |-> [pid \in DOMAIN players |->
                     [id |-> players[pid].id, hp |-> players[pid].hp,
                      alive |-> players[pid].alive]],
      projectiles |-> [i \in DOMAIN projectiles |-> toProjectile(projectiles[i])],
      pickups |-> [i \in DOMAIN pickups |-> toPickup(pickups[i])]]

\* Map.set: an id the Map has keeps its position and takes the new value, a
\* new id goes last
MapSetId(m, item) ==
  IF MapHasId(m, item.id)
  THEN [i \in DOMAIN m |-> IF m[i].id = item.id THEN item ELSE m[i]]
  ELSE Append(m, item)

RECURSIVE MapSetAll(_, _)
MapSetAll(m, items) ==
  IF Len(items) = 0 THEN m ELSE MapSetAll(MapSetId(m, Head(items)), Tail(items))

\* a patch that leaves the removed ids in place
patchEntitiesById_keepRemoved(base, patch, removed) ==
  MapSetAll(MapSetAll(<<>>, base), patch)

\* patch and removed are empty sequences when the delta has no such field
patchEntitiesById(base, patch, removed) ==
  LET byId == MapSetAll(MapSetAll(<<>>, base), patch)
  IN SelectSeq(byId, LAMBDA e : ~SeqHas(removed, e.id))

mergeDelta(base, data) ==
  IF base = NoState
  THEN IF Has(data, "full_state") THEN cloneWorld(data.full_state) ELSE NoState
  ELSE IF Has(data, "full_state") THEN cloneWorld(data.full_state)
  ELSE IF ~Has(data, "changed_entities") THEN base
  ELSE
    LET changed == data.changed_entities
        removed == Get(data, "removed_entities", EmptyMap)
        players ==
          IF Has(changed, "players")
          THEN LET changedPlayers == cloneWorld([players |-> changed.players]).players
               IN [pid \in DOMAIN base.players \cup DOMAIN changedPlayers |->
                     IF Has(changedPlayers, pid) THEN changedPlayers[pid]
                     ELSE base.players[pid]]
          ELSE base.players
        projectiles ==
          IF Has(changed, "projectiles") \/ Has(removed, "projectiles")
          THEN patchEntitiesById(base.projectiles, Get(changed, "projectiles", <<>>),
                                 Get(removed, "projectiles", <<>>))
          ELSE base.projectiles
        pickups ==
          IF Has(changed, "pickups") \/ Has(removed, "pickups")
          THEN LET patched == patchEntitiesById(base.pickups, Get(changed, "pickups", <<>>),
                                                Get(removed, "pickups", <<>>))
               IN [i \in DOMAIN patched |-> toPickup(patched[i])]
          ELSE base.pickups
    IN [phase |-> Get(changed, "phase", base.phase),
        tick |-> Get(changed, "tick", base.tick),
        remainingMs |-> Get(changed, "remainingMs", base.remainingMs),
        players |-> players,
        projectiles |-> [i \in DOMAIN projectiles |-> toProjectile(projectiles[i])],
        pickups |-> pickups]

(* ---- specification of the delta round trip ---- *)
\* One world, ticked with every choice of shots, hits and collected pickups;
\* each tick projects the world before and after, builds the delta the room
\* would broadcast and merges it into the client's copy of the state before.
\* ev carries the world and the values computed by the step.
DeltaSteps == {SIM_TICK_MS \div 2, SIM_TICK_MS}
\* a shot without and a shot with a fire sequence number, with the random
\* suffix of its id
ShotKinds == {[fireSeq |-> 0, suffix |-> "a"], [fireSeq |-> 7, suffix |-> "b"]}

InitDelta ==
  /\ rooms = 0
  /\ rt = <<>>
  /\ socks = [s \in Sockets |->
               [status |-> "idle", userId |-> 0, sessionId |-> 0, closeCode |-> 0]]
  /\ \E ids \in {<<1, 2>>, <<2, 1>>} :
       ev = [op |-> "start", world |-> initState(ids)]

DeltaTick(dtMs, shots, fireSeq, suffix, hit, taken) ==
  /\ ev.world.phase = "playing"
  /\ ev.world.tick < DeltaTicks
  /\ LET world == Game_tickEntities(ev.world, dtMs, shots, fireSeq, suffix, hit, taken)
         prev == toNetworkState(ev.world)
         next == toNetworkState(world)
         delta == buildDelta(prev, next)
     IN ev' = [op |-> "delta", world |-> world, prev |-> prev, next |-> next,
               delta |-> delta, merged |-> mergeDelta(cloneWorld(prev), delta)]
  /\ UNCHANGED <<rooms, rt, socks>>

NextDelta ==
  \E dtMs \in DeltaSteps, shots \in {{}, {1}, {1, 2}}, kind \in ShotKinds,
     hit \in 0..2, taken \in 0..1 :
    DeltaTick(dtMs, shots, kind.fireSeq, kind.suffix, hit, taken)

SpecDelta == InitDelta /\ [][NextDelta]_vars

(* C20: for consecutive projected states prev and next of one world, merging
   buildDelta(prev, next) into the client's copy of prev gives the client's
   copy of next: scalars, players, projectiles and pickups, in the same
   order. *)
C20_DeltaRoundTrip ==
  ev.op = "delta" => ev.merged = cloneWorld(ev.next)

\* a delta that changes scalars and a ship, updates one projectile, adds
\* another, removes a third, and leaves a pickup untouched
C20_Witness ==
  /\ ev.op = "delta"
  /\ ev.merged = cloneWorld(ev.next)
  /\ {"tick", "remainingMs", "players", "projectiles"} \subseteq DOMAIN ev.delta.changed_entities
  /\ Len(ev.delta.removed_entities.projectiles) > 0
  /\ \E i \in DOMAIN ev.next.projectiles :
       MapHasId(ev.prev.projectiles, ev.next.projectiles[i].id)
  /\ \E i \in DOMAIN ev.next.projectiles :
       ~MapHasId(ev.prev.projectiles, ev.next.projectiles[i].id)
  /\ \E i \in DOMAIN ev.next.pickups :
       /\ MapHasId(ev.prev.pickups, ev.next.pickups[i].id)
       /\ ~Has(ev.delta.changed_entities, "pickups")

\* match_end frames of room r sent in the step
MatchEndFrames(r) == FramesOf(ev', r, {"match_end"})

(* C21: handleMatchEnd broadcasts match_end before it submits the result: a
   step that starts a webhook POST for a room has sent that room's match_end
   with the winners and the reason of the world. When the submission
   completes, with success or with a failure, the winners and the reason of
   the match are what they were, no match_end is sent, and the scheduler is
   stopped: running is false, the handle is null and no timer is pending. *)
C21_WebhookFailureKeepsOutcome ==
  [][\A r \in Rooms : ~rt[r].collected =>
       /\ After(r).posts > rt[r].posts =>
            /\ After(r).posts = rt[r].posts + 1
            /\ Cardinality(MatchEndFrames(r)) = 1
            /\ \A i \in MatchEndFrames(r) :
                 /\ ev'.out[i].payload.winner_ids = After(r).state.winnerIds
                 /\ ev'.out[i].payload.reason = After(r).state.reason
       /\ (ev'.op \in {"webhook_done", "webhook_failed"} /\ ev'.room = r) =>
            /\ After(r).state = rt[r].state
            /\ After(r).matchEnds = rt[r].matchEnds
            /\ After(r).posts = rt[r].posts
            /\ MatchEndFrames(r) = {}
            /\ ev'.out = <<>>
            /\ ~After(r).running
            /\ After(r).tickHandle = "null"
            /\ After(r).timers = 0]_vars

\* room object r in the state reached, also when the last step dropped it
Now(r) == IF ev.gone.id = r THEN ev.gone ELSE rt[r]

\* the submission of the result of a match that ended by timeout has failed
C21_Witness ==
  /\ ev.op = "webhook_failed"
  /\ ev.room \in Rooms
  /\ Now(ev.room).finished
  /\ Now(ev.room).matchEnds = 1
  /\ Now(ev.room).posts = 1
  /\ Now(ev.room).state.reason = "timeout"
  /\ ~Now(ev.room).running
  /\ Now(ev.room).timers = 0

(* ---- token validation: server/auth.js (src/unnamed/part_004) ---- *)
MaxCalls == 2   \* calls of validateAccessToken in SpecJwks

\* The key sets the backend publishes, one after the other: a restart
\* rotates the key material under the same kid, or publishes a new kid.
KeySets == {[kid |-> "a", mat |-> 1], [kid |-> "a", mat |-> 2], [kid |-> "b", mat |-> 3]}
\* the cache entry of the JWKS url: none, a remote set created but not yet
\* fetched, or the keys it fetched
NoEntry == [kid |-> "none"]
Unfetched == [kid |-> "unfetched"]

\* a token: the key that signed it (mat 0 is a forged signature) and the
\* first thing that is wrong with its claims
TokenFaults == {"ok", "expired", "issuer", "audience", "service_id", "permission", "session_id"}
JwtTokens == [kid : {"a", "b"}, mat : 0..3, fault : TokenFaults]

JoseError(name, message) == [name |-> name, message |-> message]
NoError == JoseError("none", "")

\* jose jwtVerify against the keys a key set holds: key lookup, signature,
\* then expiry, issuer and audience
jwtVerify(token, keys) ==
  IF token.kid # keys.kid
  THEN JoseError("JWKSNoMatchingKey", "no applicable key found in the JSON Web Key Set")
  ELSE IF token.mat # keys.mat
  THEN JoseError("JWSSignatureVerificationFailed", "signature verification failed")
  ELSE IF token.fault = "expired"
  THEN JoseError("JWTExpired", "\"exp\" claim timestamp check failed")
  ELSE IF token.fault = "issuer"
  THEN JoseError("JWTClaimValidationFailed", "unexpected \"iss\" claim value")
  ELSE IF token.fault = "audience"
  THEN JoseError("JWTClaimValidationFailed", "unexpected \"aud\" claim value")
  ELSE NoError

\* the messages that contain 'signature verification failed', 'no applicable
\* key' or 'no matching key'
RetryableMessages ==
  {"signature verification failed", "no applicable key found in the JSON Web Key Set"}

\* a retry on every error
isJwksRetryableError_always(err) == TRUE

isJwksRetryableError(err) ==
  \/ err.name = "JWSSignatureVerificationFailed"
  \/ err.name = "JWKSNoMatchingKey"
  \/ err.message \in RetryableMessages

getJWKS(cache, forceRefresh) ==
  LET c1 == IF forceRefresh THEN NoEntry ELSE cache
  IN IF c1 = NoEntry THEN Unfetched ELSE c1

\* the additional claim checks after a successful jwtVerify
claimCheck(token) ==
  IF token.fault \in {"service_id", "permission", "session_id"}
  THEN "Token validation failed: " \o token.fault
  ELSE "payload"

\* the keys jwtVerify works with: a remote set that was not fetched yet
\* fetches the published keys; one that has no key for the kid may reload
\* them when its cooldown has passed (reload)
KeysUsed(cache, remote, token, reload) ==
  IF cache = Unfetched \/ (reload /\ cache.kid # token.kid) THEN remote ELSE cache

JwksIdle(remote, cache, calls) ==
  [op |-> "idle", remote |-> remote, cache |-> cache, calls |-> calls,
   token |-> [kid |-> "a", mat |-> 0, fault |-> "ok"],
   attempts |-> 0, refreshes |-> 0, errs |-> <<>>, result |-> "none"]

InitJwks ==
  /\ rooms = 0
  /\ rt = <<>>
  /\ socks = [s \in Sockets |->
               [status |-> "idle", userId |-> 0, sessionId |-> 0, closeCode |-> 0]]
  /\ ev = JwksIdle([kid |-> "a", mat |-> 1], NoEntry, 0)

\* the backend restarts and publishes another key set
Rotate(keys) ==
  /\ keys # ev.remote
  /\ keys.mat > ev.remote.mat
  /\ ev' = [ev EXCEPT !.remote = keys]
  /\ UNCHANGED <<rooms, rt, socks>>

\* validateAccessToken up to its first await: getJWKS, jwtVerify started
Validate(token) ==
  /\ ev.op \in {"idle", "done"}
  /\ ev.calls < MaxCalls
  /\ ev' = [JwksIdle(ev.remote, getJWKS(ev.cache, FALSE), ev.calls + 1)
              EXCEPT !.op = "first", !.token = token, !.attempts = 1]
  /\ UNCHANGED <<rooms, rt, socks>>

\* the outcome of the call once jwtVerify has succeeded or failed for good
Settle(e, err) ==
  [e EXCEPT !.op = "done",
            !.errs = IF err = NoError THEN @ ELSE Append(@, err),
            !.result = IF err = NoError THEN claimCheck(e.token)
                       ELSE "Token validation failed: " \o err.message]

\* the first jwtVerify returns
FirstVerifyReturns(reload) ==
  /\ ev.op = "first"
  /\ LET keys == KeysUsed(ev.cache, ev.remote, ev.token, reload)
         err == jwtVerify(ev.token, keys)
         e1 == [ev EXCEPT !.cache = keys]
     IN ev' = IF err # NoError /\ isJwksRetryableError(err)
              THEN [e1 EXCEPT !.op = "retry", !.errs = Append(@, err),
                              !.cache = getJWKS(keys, TRUE),
                              !.refreshes = @ + 1, !.attempts = @ + 1]
              ELSE Settle(e1, err)
  /\ UNCHANGED <<rooms, rt, socks>>

\* the jwtVerify of the retry returns
RetryVerifyReturns(reload) ==
  /\ ev.op = "retry"
  /\ LET keys == KeysUsed(ev.cache, ev.remote, ev.token, reload)
     IN ev' = Settle([ev EXCEPT !.cache = keys], jwtVerify(ev.token, keys))
  /\ UNCHANGED <<rooms, rt, socks>>

NextJwks ==
  \/ \E keys \in KeySets : Rotate(keys)
  \/ \E token \in JwtTokens : Validate(token)
  \/ \E reload \in BOOLEAN : FirstVerifyReturns(reload)
  \/ \E reload \in BOOLEAN : RetryVerifyReturns(reload)

SpecJwks == InitJwks /\ [][NextJwks]_vars

RetryableNames == {"JWKSNoMatchingKey", "JWSSignatureVerificationFailed"}

(* C22: validateAccessToken verifies a token at most twice and refreshes the
   key set at most once. It verifies a second time, on a key set that was
   discarded and refetched, exactly when the first verification failed with
   a no-matching-key or a signature error, and the outcome of the second
   verification is the outcome of the call; any other failure of the first
   verification (expiry, issuer, audience) ends the call with that failure
   and without a refresh, and so does a failed claim check. *)
C22_RetryOnce ==
  /\ ev.attempts \in 0..2
  /\ ev.refreshes <= 1
  /\ ev.op = "first" => ev.attempts = 1 /\ ev.refreshes = 0 /\ ev.errs = <<>>
  /\ ev.op = "retry" =>
       /\ ev.attempts = 2 /\ ev.refreshes = 1
       /\ Len(ev.errs) = 1 /\ ev.errs[1].name \in RetryableNames
       /\ ev.cache = Unfetched
  /\ ev.op = "done" =>
       /\ ev.attempts \in 1..2
       /\ ev.refreshes = ev.attempts - 1
       /\ ev.attempts = 2 <=> (Len(ev.errs) >= 1 /\ ev.errs[1].name \in RetryableNames)
       /\ ev.attempts = 1 /\ Len(ev.errs) = 1 =>
            /\ ev.errs[1].name \in {"JWTExpired", "JWTClaimValidationFailed"}
            /\ ev.result = "Token validation failed: " \o ev.errs[1].message
       /\ ev.attempts = 2 =>
            /\ Len(ev.errs) \in 1..2
            /\ Len(ev.errs) = 2 =>
                 ev.result = "Token validation failed: " \o ev.errs[2].message
            /\ Len(ev.errs) = 1 => ev.result = claimCheck(ev.token)
       /\ Len(ev.errs) = 0 => ev.result = claimCheck(ev.token)

\* a token signed with the rotated key failed on the cached keys and was
\* accepted on the refreshed ones
C22_Witness ==
  /\ ev.op = "done"
  /\ ev.attempts = 2
  /\ ev.errs = <<JoseError("JWSSignatureVerificationFailed", "signature verification failed")>>
  /\ ev.result = "payload"
  /\ ev.calls = 2

(* ---- a server whose clients send no input ---- *)
\* Without input no ship fires, so no ship takes damage. The tick timer of a
\* room fires whenever it is pending (setTimeout of _scheduleNextTick).
NextQuiet ==
  \/ \E s \in 1..NumSockets, u \in UserIds, sid \in SessionIds : Connect(s, u, sid)
  \/ \E s \in Sockets : Join(s, MaxRooms)
  \/ \E s \in Sockets : Leave(s)
  \/ \E s \in Sockets : Close(s)
  \/ \E r \in 1..MaxRooms : Tick(r, ElapsedChoices, {0})
  \/ \E r \in 1..MaxRooms, ok \in BOOLEAN : WebhookDone(r, ok)

SpecQuiet ==
  /\ Init
  /\ [][NextQuiet]_vars
  /\ \A r \in 1..MaxRooms : WF_vars(Tick(r, ElapsedChoices, {0}))

\* two players are connected to room r and its match is running
TwoPlaying(r) ==
  /\ r <= Len(rt)
  /\ rt[r].running /\ ~rt[r].finished
  /\ Len(rt[r].connectedUserIds) = 2
  /\ Len(rt[r].state.order) = 2

\* the last step was a tick of room r that broadcast match_end with reason
\* timeout and both players as winners
TimedOutTied(r) ==
  /\ ev.op = "tick"
  /\ r <= Len(rt)
  /\ \E i \in FramesOf(ev, r, {"match_end"}) :
       /\ ev.out[i].payload.reason = "timeout"
       /\ Len(ev.out[i].payload.winner_ids) = 2
       /\ Range(ev.out[i].payload.winner_ids) = Range(Now(r).state.order)
       /\ \A p \in Range(Now(r).state.order) : Now(r).state.players[p].hp = CONFIG_maxHp * HpUnit

\* a session of room r left or closed in the last step
Departed(r) == ev.op \in {"leave", "close"} /\ ev.room = r

(* C23: when two players are in a running match and no input is sent, then,
   the tick timer of the room firing whenever it is pending, either a player
   disconnects or the match ends: match_end is broadcast with reason timeout
   and both player ids as winners, both at hp 100. *)
C23_EmptyMatchTimesOut ==
  \A r \in 1..MaxRooms : TwoPlaying(r) ~> (TimedOutTied(r) \/ Departed(r))

\* the match of a room has ended by timeout with both players as winners
C23_Witness == \E r \in 1..MaxRooms : TimedOutTied(r) /\ Now(r).serverTick >= 2

(* ==================================================================== *)
(* Terminal resolution as a pure function (game.js resolveTerminal):    *)
(* the world is drawn from a bounded set and resolveTerminal is applied *)
(* to it once.                                                          *)
(* ==================================================================== *)

\* hp values of a drawn world: dead, two values closer than the tolerance,
\* one value further away, and full hp
HpChoices ==
  {0, 70 * HpUnit - 5, 70 * HpUnit, 70 * HpUnit + 2 * ScoreTolerance,
   CONFIG_maxHp * HpUnit}

RemainingChoices == {0, SIM_TICK_MS, CONFIG_roundDurationMs}

\* a world in the playing phase: a ship is alive exactly while its hp is positive
drawnWorld(ids, hps, remainingMs) ==
  [initState(ids) EXCEPT
     !.tick = 1,
     !.remainingMs = remainingMs,
     !.players = [p \in Range(ids) |->
                    [id |-> p, hp |-> hps[p], alive |-> hps[p] > 0]]]

InitTerminal ==
  /\ rooms = 0
  /\ rt = <<>>
  /\ socks = [s \in Sockets |->
               [status |-> "idle", userId |-> 0, sessionId |-> 0, closeCode |-> 0]]
  /\ \E ids \in {<<1, 2>>, <<2, 1>>}, hps \in [{1, 2} -> HpChoices],
        remainingMs \in RemainingChoices :
       ev = [op |-> "drawn", before |-> drawnWorld(ids, hps, remainingMs),
             after |-> drawnWorld(ids, hps, remainingMs)]

Resolve ==
  /\ ev.op = "drawn"
  /\ ev' = [ev EXCEPT !.op = "resolved", !.after = resolveTerminal(ev.before)]
  /\ UNCHANGED <<rooms, rt, socks>>

NextTerminal == Resolve

SpecTerminal == InitTerminal /\ [][NextTerminal]_vars

AliveSet(state) == {p \in Range(state.order) : state.players[p].alive}

MaxHp(state) ==
  CHOOSE h \in {state.players[p].hp : p \in Range(state.order)} :
    \A p \in Range(state.order) : state.players[p].hp <= h

\* the outcome of a resolution, given the set of ships that win a timeout
TerminalOutcome(before, after, topShips) ==
  IF Cardinality(AliveSet(before)) <= 1
  THEN /\ after.phase = "finished"
       /\ after.reason = "elimination"
       /\ Range(after.winnerIds) = AliveSet(before)
  ELSE IF before.remainingMs <= 0
  THEN /\ after.phase = "finished"
       /\ after.reason = "timeout"
       /\ Range(after.winnerIds) = topShips
  ELSE /\ after = before
       /\ after.phase = "playing"

\* C24 (as amended): elimination first, with the alive ships (possibly none)
\* as winners; otherwise at remainingMs 0 a timeout whose winners are all
\* ships with hp less than 0.0001 below the maximum hp; otherwise the phase
\* stays playing.
C24_TerminalResolution ==
  ev.op = "resolved" =>
    TerminalOutcome(ev.before, ev.after,
      {p \in Range(ev.before.order) :
         MaxHp(ev.before) - ev.before.players[p].hp < ScoreTolerance})

\* a timeout with two ships alive whose hp differ by less than the tolerance
C24_Witness ==
  /\ ev.op = "resolved"
  /\ ev.after.reason = "timeout"
  /\ Len(ev.after.winnerIds) = 2
  /\ ev.before.players[1].hp # ev.before.players[2].hp

\* C24 as stated: the winners of a timeout are the ships whose hp equals the
\* maximum hp.
C24_WinnersHaveEqualHp ==
  ev.op = "resolved" =>
    TerminalOutcome(ev.before, ev.after,
      {p \in Range(ev.before.order) :
         ev.before.players[p].hp = MaxHp(ev.before)})

(* ==================================================================== *)
(* Ship movement and damage: game.js tick, lines 149-179, fed as the    *)
(* server feeds it (enqueueInput stores, tick applies). Positions and   *)
(* velocities are in hundredths of a unit, angles in milliradians,      *)
(* directions in thousandths.                                           *)
(* ==================================================================== *)
MoveTicks == 2   \* simulation ticks of one run of SpecMove

PosUnit == 100
TAU_mrad == 6283
CONFIG_turnRate_x10 == 38            \* 3.8 rad/s
CONFIG_accelForward == 55
CONFIG_accelReverse == 28
CONFIG_linearDrag_x100 == 18         \* 0.18 per second
CONFIG_maxSpeed == 32
CONFIG_playerRadius_x10 == 25        \* 2.5
CONFIG_arenaWidth == 100
CONFIG_laserDps == 80

\* a * b / d rounded to the nearest integer
MulDiv(a, b, d) == (2 * a * b + d) \div (2 * d)

RECURSIVE SqrtBetween(_, _, _)
SqrtBetween(n, lo, hi) ==
  IF lo >= hi THEN lo
  ELSE LET mid == (lo + hi + 1) \div 2 IN
       IF mid * mid <= n THEN SqrtBetween(n, mid, hi) ELSE SqrtBetween(n, lo, mid - 1)

\* Math.hypot to the hundredth below
Hypot(a, b) == SqrtBetween(a * a + b * b, 0, 20000)

\* Math.sin of an angle in [0, TAU), in thousandths (Bhaskara's formula)
SinHalfTurn(x) ==
  LET half == TAU_mrad \div 2
      q == x * (half - x)
  IN (160 * q) \div ((5 * half * half - 4 * q) \div 100)

MathSin(a) ==
  IF a <= TAU_mrad \div 2 THEN SinHalfTurn(a) ELSE 0 - SinHalfTurn(a - TAU_mrad \div 2)

MathCos(a) == MathSin((a + TAU_mrad \div 4) % TAU_mrad)

normalizeAngle(a) == a % TAU_mrad

clampPlayerToArena(p) ==
  LET lo == (CONFIG_playerRadius_x10 * PosUnit) \div 10
      hi == CONFIG_arenaWidth * PosUnit - lo
      \* a comparison with NaN is false
      px == IF IsNum(p.x) /\ p.x < lo THEN [p EXCEPT !.x = lo, !.vx = IF p.vx < 0 THEN 0 ELSE @]
            ELSE IF IsNum(p.x) /\ p.x > hi THEN [p EXCEPT !.x = hi, !.vx = IF p.vx > 0 THEN 0 ELSE @]
            ELSE p
  IN IF IsNum(px.y) /\ px.y < lo THEN [px EXCEPT !.y = lo, !.vy = IF px.vy < 0 THEN 0 ELSE @]
     ELSE IF IsNum(px.y) /\ px.y > hi THEN [px EXCEPT !.y = hi, !.vy = IF px.vy > 0 THEN 0 ELSE @]
     ELSE px

\* the movement of an alive ship in one tick of dtMs milliseconds
moveShip(p, dtMs) ==
  LET turn == p.input.turn
      thrust == p.input.thrust
      angle == IF IsNum(turn) /\ IsNum(p.angle)
               THEN normalizeAngle(p.angle + (turn * CONFIG_turnRate_x10 * dtMs) \div 10)
               ELSE NaN
      \* thrust !== 0 holds for NaN, and the sum with a NaN term is NaN
      accel == IF IsNum(thrust) /\ thrust > 0 THEN CONFIG_accelForward ELSE CONFIG_accelReverse
      pushed(v, dir) ==
        IF thrust = 0 THEN v
        ELSE IF ~IsNum(thrust) \/ ~IsNum(angle) \/ ~IsNum(v) THEN NaN
        ELSE v + MulDiv(dir * accel * thrust, dtMs * PosUnit, 1000000)
      dragged(v) ==
        IF IsNum(v) THEN v - MulDiv(v, CONFIG_linearDrag_x100 * dtMs, 100000) ELSE NaN
      vx1 == dragged(pushed(p.vx, IF IsNum(angle) THEN MathCos(angle) ELSE NaN))
      vy1 == dragged(pushed(p.vy, IF IsNum(angle) THEN MathSin(angle) ELSE NaN))
      maxSpeed == CONFIG_maxSpeed * PosUnit
      \* speed > maxSpeed is false when the speed is NaN
      fast == IsNum(vx1) /\ IsNum(vy1) /\ Hypot(vx1, vy1) > maxSpeed
      vx2 == IF fast THEN MulDiv(vx1, maxSpeed, Hypot(vx1, vy1)) ELSE vx1
      vy2 == IF fast THEN MulDiv(vy1, maxSpeed, Hypot(vx1, vy1)) ELSE vy1
      step(pos, v) == IF IsNum(pos) /\ IsNum(v) THEN pos + MulDiv(v, dtMs, 1000) ELSE NaN
  IN clampPlayerToArena([p EXCEPT !.angle = angle, !.vx = vx2, !.vy = vy2,
                                  !.x = step(p.x, vx2), !.y = step(p.y, vy2)])

\* damage one ship can take in a tick of dtMs: none, a projectile, a laser beam
MoveDamage(dtMs) ==
  {0, CONFIG_projectileDamage * HpUnit, ((CONFIG_laserDps * HpUnit) \div 1000) * dtMs}

\* Game.tick for one ship: an alive ship moves; then the damage of the tick
tickShip(p, dtMs, dmg) ==
  LET moved == IF p.alive THEN moveShip(p, dtMs) ELSE p
      hp == Max(0, moved.hp - dmg)
  IN IF moved.alive /\ dmg > 0 THEN [moved EXCEPT !.hp = hp, !.alive = hp > 0] ELSE moved

\* what a client puts into turn and thrust of an input frame
RawAxis == {-2, 0, 1, JsText}

\* tick durations the server passes: 0 up to twice the tick period
MoveElapsed == {0, SIM_TICK_MS, 2 * SIM_TICK_MS}

NoInput == [turn |-> 0, thrust |-> 0, fire |-> FALSE, firePressed |-> FALSE,
            fireSeq |-> 0, lagCompMs |-> 0]

\* ships of a running match: at a spawn point at rest, at full speed in the
\* open, and at full speed next to a wall
MoveShips ==
  { [id |-> 1, hp |-> CONFIG_maxHp * HpUnit, alive |-> TRUE, input |-> NoInput,
     x |-> pos[1], y |-> pos[2], vx |-> vel[1], vy |-> vel[2], angle |-> vel[3]] :
      pos \in {<<1800, 5000>>, <<260, 9740>>},
      vel \in {<<0, 0, 0>>, <<3200, 0, 0>>, <<-2262, 2262, 2356>>} }

InitMove ==
  /\ rooms = 0
  /\ rt = <<>>
  /\ socks = [s \in Sockets |->
               [status |-> "idle", userId |-> 0, sessionId |-> 0, closeCode |-> 0]]
  /\ \E p \in MoveShips :
       ev = [op |-> "start", ship |-> p, ticks |-> 0, dtMs |-> 0,
             latest |-> storedInput(PlainPayload, 0)]

\* an input frame: enqueueInput stores the latest input of the user
MoveInput(turn, thrust) ==
  /\ ev.ticks < MoveTicks
  /\ ev' = [ev EXCEPT !.op = "input",
              !.latest = storedInput([PlainPayload EXCEPT !.turn = turn, !.thrust = thrust], 0)]
  /\ UNCHANGED <<rooms, rt, socks>>

\* a simulation tick: applyInput of the latest input on an alive ship, then
\* Game.tick
MoveTick(dtMs, dmg) ==
  /\ ev.ticks < MoveTicks
  /\ LET p == IF ev.ship.alive THEN [ev.ship EXCEPT !.input = applyInput(ev.latest)]
              ELSE ev.ship
     IN ev' = [ev EXCEPT !.op = "tick", !.ticks = @ + 1, !.dtMs = dtMs,
                         !.ship = tickShip(p, dtMs, dmg)]
  /\ UNCHANGED <<rooms, rt, socks>>

NextMove ==
  \/ \E turn \in RawAxis, thrust \in RawAxis : MoveInput(turn, thrust)
  \/ \E dtMs \in MoveElapsed : \E dmg \in MoveDamage(dtMs) : MoveTick(dtMs, dmg)

SpecMove == InitMove /\ [][NextMove]_vars

\* quantization: the speed limit holds to within 0.02 units per second
SpeedSlack == 2

\* C25: after every simulation tick the ship has 0 <= hp <= 100, a speed of at
\* most 32 (up to quantization) and a position inside
\* [playerRadius, 100 - playerRadius] on both axes.
C25_ShipBounds ==
  ev.op = "tick" =>
    LET p == ev.ship
        lo == (CONFIG_playerRadius_x10 * PosUnit) \div 10
        hi == CONFIG_arenaWidth * PosUnit - lo
    IN /\ 0 <= p.hp /\ p.hp <= CONFIG_maxHp * HpUnit
       /\ IsNum(p.vx) /\ IsNum(p.vy) /\ IsNum(p.x) /\ IsNum(p.y)
       /\ Hypot(p.vx, p.vy) <= CONFIG_maxSpeed * PosUnit + SpeedSlack
       /\ lo <= p.x /\ p.x <= hi
       /\ lo <= p.y /\ p.y <= hi

\* a tick that applied a thrust the client sent as a string, on a ship that
\* the wall stopped and a beam damaged
C25_Witness ==
  /\ ev.op = "tick"
  /\ ev.latest.thrust = NaN
  /\ ev.ship.input.thrust = 0
  /\ ev.ship.y = CONFIG_arenaWidth * PosUnit - (CONFIG_playerRadius_x10 * PosUnit) \div 10
  /\ ev.ship.vy = 0
  /\ ev.ship.hp < CONFIG_maxHp * HpUnit
  /\ ev.ship.hp % HpUnit # 0
  /\ ev.ship.alive

(* ==================================================================== *)
(* Game.applyInput as a pure function: a world and a payload are drawn  *)
(* from bounded sets and applyInput is applied once.                    *)
(* ==================================================================== *)
\* values of turn and thrust in a payload: numbers and a string
AxisChoices == {-2, 0, 1, 2, JsText}
\* values of lag_comp_ms in a payload
LagChoices == {-5, 0, 100, 120, 300, 500, JsText}

\* Game.applyInput(state, playerId, payload): nothing for a ship that is
\* missing or dead
Game_applyInput(state, playerId, payload) ==
  IF ~Has(state.players, playerId) \/ ~state.players[playerId].alive THEN state
  ELSE [state EXCEPT !.players[playerId].input = applyInput(payload)]

\* a world of two ships, each alive or dead, each with the input slot of initState
inputWorld(dead) ==
  [initState(<<1, 2>>) EXCEPT
     !.players = [p \in {1, 2} |->
                    [id |-> p, hp |-> IF p \in dead THEN 0 ELSE CONFIG_maxHp * HpUnit,
                     alive |-> p \notin dead, input |-> NoInput]]]

InitInput ==
  /\ rooms = 0
  /\ rt = <<>>
  /\ socks = [s \in Sockets |->
               [status |-> "idle", userId |-> 0, sessionId |-> 0, closeCode |-> 0]]
  /\ \E dead \in {{}, {1}}, playerId \in 1..3, turn \in AxisChoices, thrust \in {0, 2},
        lag \in LagChoices, press \in BOOLEAN :
       ev = [op |-> "drawn", playerId |-> playerId,
             payload |-> [turn |-> turn, thrust |-> thrust, fire |-> press,
                          fire_pressed |-> press, fire_seq |-> IF press THEN 7 ELSE 0,
                          lag_comp_ms |-> lag],
             before |-> inputWorld(dead), after |-> inputWorld(dead)]

ApplyInput ==
  /\ ev.op = "drawn"
  /\ ev' = [ev EXCEPT !.op = "applied",
              !.after = Game_applyInput(ev.before, ev.playerId, ev.payload)]
  /\ UNCHANGED <<rooms, rt, socks>>

NextInput == ApplyInput

SpecInput == InitInput /\ [][NextInput]_vars

\* C28: applyInput stores, for an alive ship, turn and thrust clamped to
\* [-1, 1] and lag compensation clamped to [0, 120] ms for any payload values;
\* for a ship that is absent or dead it changes nothing in the world.
C28_InputClamped ==
  ev.op = "applied" =>
    IF Has(ev.before.players, ev.playerId) /\ ev.before.players[ev.playerId].alive
    THEN LET input == ev.after.players[ev.playerId].input IN
         /\ IsNum(input.turn) /\ -1 <= input.turn /\ input.turn <= 1
         /\ IsNum(input.thrust) /\ -1 <= input.thrust /\ input.thrust <= 1
         /\ IsNum(input.lagCompMs) /\ 0 <= input.lagCompMs /\ input.lagCompMs <= 120
    ELSE ev.after = ev.before

(* ==================================================================== *)
(* Lag-compensated shots: the game module of src/unnamed/part_002.      *)
(* One ship fires once at the other; both ships lie on the line y = 50. *)
(* ==================================================================== *)
ShotTicks == 3   \* simulation ticks of one run of SpecShot

CONFIG_projectileSpeed == 70
CONFIG_projectileTtlMs_full == 1200
CONFIG_projectileRadius_x10 == 8     \* 0.8
POS_HISTORY_MAX == 30
SIM_TICK_MS_REF == 16
MarkerTtlMs == 50

HIT_DIST == ((CONFIG_playerRadius_x10 + CONFIG_projectileRadius_x10) * PosUnit) \div 10
distSq(ax, ay, bx, by) == (ax - bx) * (ax - bx) + (ay - by) * (ay - by)
\* Math.round and Math.ceil of n / d, for n >= 0
MathRound(n, d) == (2 * n + d) \div (2 * d)
MathCeil(n, d) == (n + d - 1) \div d

recordPosition(player) ==
  LET h == Append(player.posHistory, [x |-> player.x, y |-> player.y]) IN
  [player EXCEPT !.posHistory = IF Len(h) > POS_HISTORY_MAX THEN Tail(h) ELSE h]

getRewindPos(player, lagMs) ==
  IF lagMs <= 0 \/ Len(player.posHistory) = 0 THEN [x |-> player.x, y |-> player.y]
  ELSE LET ticksBack == MathRound(lagMs, SIM_TICK_MS_REF)
           idx == Max(0, Len(player.posHistory) - 1 - ticksBack)
       IN player.posHistory[idx + 1]

\* the first alive ship other than ownerId within hit distance of (x, y),
\* ships rewound by rewindMs; 0 when there is none
FirstHit(state, ownerId, x, y, rewindMs) ==
  LET near == SelectSeq(state.order, LAMBDA pid :
                /\ state.players[pid].alive
                /\ pid # ownerId
                /\ LET rPos == getRewindPos(state.players[pid], rewindMs) IN
                   distSq(x, y, rPos.x, rPos.y) <= HIT_DIST * HIT_DIST)
  IN IF Len(near) = 0 THEN 0 ELSE near[1]

damageShip(state, pid, damage) ==
  LET hp == Max(0, state.players[pid].hp - damage) IN
  [state EXCEPT !.players[pid].hp = hp, !.players[pid].alive = @ /\ hp > 0]

\* the steps of the instant rewind hit-scan from step s on
RECURSIVE hitScan(_, _, _, _, _, _, _, _)
hitScan(state, ownerId, s, steps, checkX, checkY, stepX, appliedLagMs) ==
  LET lo == (CONFIG_projectileRadius_x10 * PosUnit) \div 10
      hi == CONFIG_arenaWidth * PosUnit - lo
      x == checkX + stepX
      rewindMs == appliedLagMs - (s + 1) * SIM_TICK_MS_REF
      pid == FirstHit(state, ownerId, x, checkY, Max(0, rewindMs))
  IN IF s >= steps \/ x < lo \/ x > hi THEN [hit |-> 0, x |-> checkX, y |-> checkY]
     ELSE IF pid # 0 THEN [hit |-> pid, x |-> x, y |-> checkY]
     ELSE hitScan(state, ownerId, s + 1, steps, x, checkY, stepX, appliedLagMs)

\* spawnProjectile of a ship heading along the x axis (sin of its angle is 0)
spawnProjectileRewind(state, ownerId, lagCompMs, suffix) ==
  LET p == state.players[ownerId]
      muzzle == ((CONFIG_playerRadius_x10 + 5) * PosUnit) \div 10
      lo == (CONFIG_projectileRadius_x10 * PosUnit) \div 10
      hi == CONFIG_arenaWidth * PosUnit - lo
      spawnX == Clamp(p.x + MulDiv(MathCos(p.angle), muzzle, 1000), lo, hi)
      spawnY == Clamp(p.y, lo, hi)
      pr == [id |-> <<state.tick, ownerId, suffix>>, ownerId |-> ownerId,
             x |-> spawnX, y |-> spawnY,
             vx |-> MulDiv(MathCos(p.angle), CONFIG_projectileSpeed * PosUnit, 1000), vy |-> 0,
             ttlMs |-> CONFIG_projectileTtlMs_full,
             damage |-> CONFIG_projectileDamage * HpUnit, isBomb |-> FALSE,
             lagCompMs |-> Clamp(lagCompMs, 0, CONFIG_maxLagCompensationMs)]
      appliedLagMs == pr.lagCompMs
      steps == MathCeil(appliedLagMs, SIM_TICK_MS_REF)
      scan == hitScan(state, ownerId, 0, steps, spawnX, spawnY,
                      MulDiv(pr.vx, appliedLagMs, 1000 * steps), appliedLagMs)
  IN IF appliedLagMs <= 0
     THEN [state EXCEPT !.projectiles = Append(@, pr)]
     ELSE IF scan.hit # 0
     THEN [damageShip(state, scan.hit, pr.damage) EXCEPT
             !.projectiles = Append(@, [pr EXCEPT !.x = scan.x, !.y = scan.y,
                                                  !.ttlMs = MarkerTtlMs])]
     ELSE [state EXCEPT !.projectiles =
             Append(@, [pr EXCEPT !.x = Clamp(spawnX + MulDiv(pr.vx, appliedLagMs, 1000), lo, hi),
                                  !.ttlMs = Max(0, @ - appliedLagMs)])]

\* updateProjectiles from projectile i on; a projectile that hits is dropped
RECURSIVE updateProjectilesRewind(_, _, _, _)
updateProjectilesRewind(state, dtMs, i, kept) ==
  IF i > Len(state.projectiles) THEN [state EXCEPT !.projectiles = kept]
  ELSE
    LET pr == state.projectiles[i]
        lo == (CONFIG_projectileRadius_x10 * PosUnit) \div 10
        hi == CONFIG_arenaWidth * PosUnit - lo
        moved == [pr EXCEPT !.ttlMs = @ - dtMs, !.x = @ + MulDiv(pr.vx, dtMs, 1000),
                            !.y = @ + MulDiv(pr.vy, dtMs, 1000)]
        now == FirstHit(state, pr.ownerId, moved.x, moved.y, 0)
        rewound == IF pr.lagCompMs > 0
                   THEN FirstHit(state, pr.ownerId, moved.x, moved.y, pr.lagCompMs) ELSE 0
        hit == IF now # 0 THEN now ELSE rewound
    IN IF moved.ttlMs <= 0 \/ moved.x < lo \/ moved.x > hi \/ moved.y < lo \/ moved.y > hi
       THEN updateProjectilesRewind(state, dtMs, i + 1, kept)
       ELSE IF hit = 0
       THEN updateProjectilesRewind(state, dtMs, i + 1, Append(kept, moved))
       ELSE updateProjectilesRewind(damageShip(state, hit, pr.damage), dtMs, i + 1, kept)

\* tick from the ship at place i of the ship order on: an alive ship moves,
\* records its position and fires when its input says so; then the projectiles
RECURSIVE tickRewind(_, _, _, _)
tickRewind(state, dtMs, i, suffix) ==
  IF i > Len(state.order) THEN updateProjectilesRewind(state, dtMs, 1, <<>>)
  ELSE
    LET pid == state.order[i]
        p == state.players[pid]
        moved == recordPosition(moveShip(p, dtMs))
        s1 == [state EXCEPT !.players[pid] = [moved EXCEPT !.input.firePressed = FALSE]]
        s2 == IF p.input.firePressed
              THEN spawnProjectileRewind(s1, pid, p.input.lagCompMs, suffix) ELSE s1
    IN IF ~p.alive THEN tickRewind(state, dtMs, i + 1, suffix)
       ELSE tickRewind(s2, dtMs, i + 1, suffix)

Game_tickRewind(state, dtMs, suffix) ==
  tickRewind([state EXCEPT !.tick = @ + 1], dtMs, 1, suffix)

\* a ship of part_002 on the line y = 50, heading along the x axis
RewindShip(id, x, vx, hp) ==
  [id |-> id, x |-> x, y |-> 50 * PosUnit, vx |-> vx, vy |-> 0, angle |-> 0,
   hp |-> hp, alive |-> TRUE, input |-> NoInput, posHistory |-> <<>>]

\* n ticks of a match without input
RECURSIVE coast(_, _)
coast(state, n) ==
  IF n = 0 THEN state ELSE coast(Game_tickRewind(state, SIM_TICK_MS, "none"), n - 1)

\* lag compensation the server passes (at most MAX_LAG_COMP_MS)
ShotLags == {0, 48, 100}
\* where the target is when the match is joined, and how fast it drifts
TargetStarts == {2150, 2500, 2700, 2900, 3500, 6000}
TargetDrifts == {-2500, 0, 2500}
WarmUpTicks == 7

InitShot ==
  /\ rooms = 0
  /\ rt = <<>>
  /\ socks = [s \in Sockets |->
               [status |-> "idle", userId |-> 0, sessionId |-> 0, closeCode |-> 0]]
  /\ \E x \in TargetStarts, vx \in TargetDrifts, lag \in ShotLags,
        hp \in {CONFIG_maxHp * HpUnit, CONFIG_projectileDamage * HpUnit} :
       LET w == coast([tick |-> 0, order |-> <<1, 2>>, projectiles |-> <<>>,
                       players |-> <<RewindShip(1, 18 * PosUnit, 0, CONFIG_maxHp * HpUnit),
                                     RewindShip(2, x, vx, hp)>>], WarmUpTicks)
       IN ev = [op |-> "start", world |-> w, lag |-> lag, ticks |-> 0,
                instant |-> FALSE, hpAtFire |-> hp]

\* the tick that applies the fire press of ship 1
FireTick(dtMs, suffix) ==
  /\ ev.op = "start"
  /\ LET w == [ev.world EXCEPT !.players[1].input.firePressed = TRUE,
                               !.players[1].input.lagCompMs = ev.lag]
         muzzle == ((CONFIG_playerRadius_x10 + 5) * PosUnit) \div 10
         steps == MathCeil(ev.lag, SIM_TICK_MS_REF)
         scan == hitScan(w, 1, 0, steps, w.players[1].x + muzzle, w.players[1].y,
                         MulDiv(CONFIG_projectileSpeed * PosUnit, ev.lag, 1000 * steps), ev.lag)
     IN ev' = [ev EXCEPT !.op = "fire", !.ticks = 1,
                         !.world = Game_tickRewind(w, dtMs, suffix),
                         !.instant = ev.lag > 0 /\ scan.hit = 2]
  /\ UNCHANGED <<rooms, rt, socks>>

\* a later tick, without input
ShotTick(dtMs) ==
  /\ ev.op \in {"fire", "tick"}
  /\ ev.ticks < ShotTicks
  /\ ev' = [ev EXCEPT !.op = "tick", !.ticks = @ + 1,
                      !.world = Game_tickRewind(ev.world, dtMs, "none")]
  /\ UNCHANGED <<rooms, rt, socks>>

ShotElapsed == {SIM_TICK_MS, 2 * SIM_TICK_MS}

NextShot ==
  \/ \E dtMs \in ShotElapsed, suffix \in {"k3f9a", "x81qz"} : FireTick(dtMs, suffix)
  \/ \E dtMs \in ShotElapsed : ShotTick(dtMs)

SpecShot == InitShot /\ [][NextShot]_vars

\* C26: a shot that hits in the rewind hit-scan at spawn takes exactly the
\* projectile damage (30) off the target in the tick of the fire press, and
\* nothing more later: the marker projectile deals no damage.
C26_InstantHitDamagesOnce ==
  ev.op \in {"fire", "tick"} /\ ev.instant =>
    ev.world.players[2].hp = Max(0, ev.hpAtFire - CONFIG_projectileDamage * HpUnit)

(* ==================================================================== *)
(* Two runs of the simulation with the same seed, player ids, inputs    *)
(* and tick durations. Math.random, which makes the suffix of a         *)
(* projectile id, is drawn in each run on its own.                      *)
(* ==================================================================== *)
TwinTicks == 2   \* simulation ticks of the two runs in SpecTwin

\* outcomes of Math.random().toString(36).slice(2, 7)
RandomSuffixes == {"k3f9a", "x81qz"}

InitTwin ==
  /\ rooms = 0
  /\ rt = <<>>
  /\ socks = [s \in Sockets |->
               [status |-> "idle", userId |-> 0, sessionId |-> 0, closeCode |-> 0]]
  /\ \E ids \in {<<1, 2>>, <<2, 1>>} :
       ev = [op |-> "start", a |-> initState(ids), b |-> initState(ids)]

\* one tick of both runs: the same duration, the same ships firing with the
\* same fire sequence number, the same hits and pickups taken
TwinTick(dtMs, shots, fireSeq, suffixA, suffixB, hit, taken) ==
  /\ ev.a.phase = "playing"
  /\ ev.a.tick < TwinTicks
  /\ ev' = [op |-> "tick",
            a |-> Game_tickEntities(ev.a, dtMs, shots, fireSeq, suffixA, hit, taken),
            b |-> Game_tickEntities(ev.b, dtMs, shots, fireSeq, suffixB, hit, taken)]
  /\ UNCHANGED <<rooms, rt, socks>>

NextTwin ==
  \E dtMs \in DeltaSteps, shots \in {{}, {1}, {1, 2}}, fireSeq \in {0, 7},
     suffixA \in RandomSuffixes, suffixB \in RandomSuffixes, hit \in 0..2, taken \in 0..1 :
    TwinTick(dtMs, shots, fireSeq, suffixA, suffixB, hit, taken)

SpecTwin == InitTwin /\ [][NextTwin]_vars

\* C27: two runs with the same seed, player ids, inputs and tick durations
\* have identical world states after every tick, projectile and pickup ids
\* included.
C27_Deterministic ==
  ev.op = "tick" => ev.a = ev.b

(* C29: the close event of a socket that is no longer the one bound to its
   session id (the session was joined again from a newer socket) leaves the
   room as it is: the session table, the connected users, the registry entry
   and the running and finished flags do not change. *)
C29_LateCloseKeepsSession ==
  [][\A s \in Sockets :
       ( /\ ev'.op = "close"
         /\ ev'.sock = s
         /\ socks[s].status # "closed"
         /\ rooms # 0
         /\ SessionsHas(rt[rooms].sessions, socks[s].sessionId)
         /\ SessionsGet(rt[rooms].sessions, socks[s].sessionId).ws # s )
       => /\ rooms' = rooms
          /\ rt'[rooms].sessions = rt[rooms].sessions
          /\ rt'[rooms].connectedUserIds = rt[rooms].connectedUserIds
          /\ rt'[rooms].running = rt[rooms].running
          /\ rt'[rooms].finished = rt[rooms].finished]_vars

(* C30: input is admitted only from joined sessions: an accepted input comes
   from a user of the room's session table, and the keys of lastSeqByUser,
   ackSeqByPlayer and latestInputByUser are always connected user ids. *)
C30_InputOnlyFromJoined ==
  /\ \A r \in 1..Len(rt) :
       (DOMAIN rt[r].lastSeqByUser) \cup (DOMAIN rt[r].ackSeqByPlayer)
         \cup (DOMAIN rt[r].latestInputByUser) \subseteq Range(rt[r].connectedUserIds)
  /\ (ev.op = "input" /\ ev.ret.accepted /\ rooms # 0) =>
       \E i \in 1..Len(rt[rooms].sessions) :
         rt[rooms].sessions[i].userId = socks[ev.sock].userId

(* C31: every player_left frame that reaches a socket comes from a step that
   removes a session present in the session table of the frame's room, and no
   player_left reaches a room's sockets after that room's match_end. *)
C31_PlayerLeftMatchesRemoval ==
  [][\A i \in 1..Len(ev'.out) :
       (ev'.out[i].type = "player_left" /\ ev'.out[i].to # {}) =>
         LET r == ev'.out[i].room IN
         /\ r \in 1..Len(rt)
         /\ SessionsHas(rt[r].sessions, socks[ev'.sock].sessionId)
         /\ rt[r].matchEnds = 0
         /\ \A j \in 1..(i - 1) : ~(ev'.out[j].type = "match_end" /\ ev'.out[j].room = r)]_vars

(* C32: a room that is running and not finished has at least two distinct
   connected users, each with a session in the session table, and every ship
   of its world belongs to a connected user that has a session. *)
C32_RunningRoomHasItsPlayers ==
  \A r \in Rooms :
    (rt[r].running /\ ~rt[r].finished) =>
      LET o == rt[r]
          withSession == {o.sessions[i].userId : i \in 1..Len(o.sessions)}
          connected == {o.connectedUserIds[i] : i \in 1..Len(o.connectedUserIds)}
      IN /\ Cardinality(connected) >= 2
         /\ connected \subseteq withSession
         /\ ShipIds(o) \subseteq (connected \cap withSession)

(* C33: a fire press accepted since the last tick is not lost: an accepted
   input of the same user leaves the pending press in the user's latest-input
   slot, and the next tick hands fire-pressed = true for that user's living
   ship to the simulation. *)
C33_FirePressNotLost ==
  [][\A u \in UserIds :
       (rooms # 0 /\ Has(rt[rooms].latestInputByUser, u)
          /\ rt[rooms].latestInputByUser[u].fire_pressed) =>
         /\ (ev'.op = "input" /\ ev'.ret.accepted /\ socks[ev'.sock].userId = u)
              => /\ Has(After(rooms).latestInputByUser, u)
                 /\ After(rooms).latestInputByUser[u].fire_pressed
         /\ (ev'.op = "tick" /\ ev'.room = rooms /\ Has(ev'.applied, u))
              => ev'.applied[u].firePressed]_vars

(* C34: the step duration a tick hands to the simulation lies between one
   and two tick periods: whenever a tick advances a playing world whose round
   clock does not run out, the clock goes down by at least SIM_TICK_MS and at
   most 2 * SIM_TICK_MS. *)
C34_StepDurationInRange ==
  [][\A r \in Rooms :
       (ev'.op = "tick" /\ ev'.room = r
          /\ rt[r].running /\ ~rt[r].finished /\ rt[r].state # NoState
          /\ rt[r].state.phase = "playing"
          /\ After(r).state.remainingMs > 0) =>
         LET dtMs == rt[r].state.remainingMs - After(r).state.remainingMs IN
         dtMs >= SIM_TICK_MS /\ dtMs <= 2 * SIM_TICK_MS]_vars

(* ---- latency smoothing of enqueueInput, on a started room ---- *)
\* ages of client_sent_at_ms the client can produce: absent (-1), ahead of the
\* server clock, zero, usual, large, at the limit and past it
AgeChoices == {-1, -100, 0, 40, 600, MAX_CLIENT_INPUT_AGE_MS, MAX_CLIENT_INPUT_AGE_MS + 1}

\* the room after users 1 and 2 joined and maybeStart started the match
startedRoom ==
  LET c0 == Ctx(NewRoom(1, TRUE), 1)
      c1 == upsertSession(c0, 1, 1, 1)
      c2 == upsertSession(c1, 2, 2, 2)
  IN maybeStart(c2).o

lagPayload(ageMs) ==
  [turn |-> 0, thrust |-> 0, fire |-> FALSE, fire_pressed |-> FALSE, fire_seq |-> 0,
   lag_comp_ms |-> 300, client_age |-> ageMs]

InitLag ==
  /\ rooms = 0
  /\ rt = <<>>
  /\ socks = [s \in Sockets |->
               [status |-> "idle", userId |-> 0, sessionId |-> 0, closeCode |-> 0]]
  /\ ev = [op |-> "started", seq |-> 0, payload |-> lagPayload(-1), ret |-> NoRet,
           before |-> startedRoom, after |-> startedRoom]

\* user 1 sends its next input, which enqueueInput admits
LagInput(ageMs) ==
  /\ ev.seq < LagInputs
  /\ LET c == enqueueInput(Ctx(ev.after, 1), 1, ev.seq + 1, lagPayload(ageMs)) IN
     ev' = [op |-> "input", seq |-> ev.seq + 1, payload |-> lagPayload(ageMs),
            ret |-> c.ret, before |-> ev.after, after |-> c.o]
  /\ UNCHANGED <<rooms, rt, socks>>

NextLag == \E ageMs \in AgeChoices : LagInput(ageMs)

SpecLag == InitLag /\ [][NextLag]_vars

\* what the accepted input of ev did to user 1's smoothed latency, given the
\* test that decides whether the age is used
LagOutcome(used) ==
  (ev.op = "input" /\ ev.ret.accepted) =>
    LET ageMs == ev.payload.client_age
        previous == Get(ev.before.smoothedLagByUser, 1, 0)
        smoothed == Get(ev.after.smoothedLagByUser, 1, 0)
        stored == ev.after.latestInputByUser[1]
        base == IF previous # 0 THEN previous ELSE ageMs
    IN /\ IF used
          THEN smoothed = Max(0, Min(120, (base * 8 + ageMs * 2) \div 10))
          ELSE smoothed = previous
       /\ stored.lag_comp_ms = smoothed
       /\ 0 <= smoothed /\ smoothed <= 120
       /\ applyInput(stored).lagCompMs = smoothed

(* C35: on every accepted input, if client_sent_at_ms is present and
   0 <= now - clientSentAt <= 2000 ms the user's smoothed latency becomes
   0.8 * previous + 0.2 * age clamped to [0, 120] ms (previous being the age
   itself while no non-zero value is stored), otherwise the previous value is
   kept; the stored input's lag_comp_ms equals the smoothed value, and the lag
   compensation the simulation gets is within [0, 120] ms. *)
C35_LagSmoothing ==
  LagOutcome(ev.payload.client_age >= 0 /\ ev.payload.client_age <= 2000)

\* an accepted input whose usable age moved a non-zero smoothed latency
C35_Witness ==
  /\ ev.op = "input" /\ ev.ret.accepted
  /\ ev.payload.client_age = 600
  /\ Get(ev.before.smoothedLagByUser, 1, 0) = 40
  /\ Get(ev.after.smoothedLagByUser, 1, 0) = 120
  /\ ev.after.latestInputByUser[1].lag_comp_ms = 120

\* C35 as stated: the age is used whenever client_sent_at_ms is present and
\* |now - clientSentAt| <= 2000 ms
C35_LagSmoothingEitherSide ==
  LagOutcome(ev.payload.client_age # -1 /\ Abs(ev.payload.client_age) <= 2000)

(* C38: the fire sequence number sent with a fire press reaches the
   projectile of that press: when a tick hands the pending press of user u to
   the simulation, the projectile spawnProjectile builds from the ship's input,
   and its network projection, carry the fire_seq of the pressing input. *)
C38_FireSeqCarried ==
  [][\A u \in UserIds, payload \in Payloads :
       (rooms # 0 /\ ev'.op = "tick" /\ ev'.room = rooms
          /\ payload.fire_pressed
          /\ Has(rt[rooms].latestInputByUser, u)
          /\ rt[rooms].latestInputByUser[u] = storedInput(payload, rt[rooms].latestInputByUser[u].lag_comp_ms)
          /\ Has(ev'.applied, u) /\ ev'.applied[u].firePressed) =>
         LET shot == spawnProjectile(rt[rooms].state, u, ev'.applied[u].fireSeq, 1)
             pr == shot.projectiles[Len(shot.projectiles)]
         IN /\ Has(pr, "fireSeq") /\ pr.fireSeq = payload.fire_seq
            /\ Has(toNetworkProjectile(pr), "fireSeq")
            /\ toNetworkProjectile(pr).fireSeq = payload.fire_seq]_vars

(* ==================================================================== *)
(* Position history and rewind (src/unnamed/part_002): a drifting ship  *)
(* is ticked and its position some time ago is asked for.               *)
(* ==================================================================== *)
\* lag values getRewindPos is called with (none, one tick, a few ticks, the cap)
RewindLags == {0, SIM_TICK_MS_REF, 48, 100, CONFIG_maxLagCompensationMs}

InitRewind ==
  /\ rooms = 0
  /\ rt = <<>>
  /\ socks = [s \in Sockets |->
               [status |-> "idle", userId |-> 0, sessionId |-> 0, closeCode |-> 0]]
  /\ \E x \in {2500, 6000}, vx \in {-2500, 2500} :
       ev = [op |-> "start", ticks |-> 0, lag |-> 0, trace |-> <<>>,
             pos |-> [x |-> x, y |-> 50 * PosUnit],
             world |-> [tick |-> 0, order |-> <<1, 2>>, projectiles |-> <<>>,
                        players |-> <<RewindShip(1, 18 * PosUnit, 0, CONFIG_maxHp * HpUnit),
                                      RewindShip(2, x, vx, CONFIG_maxHp * HpUnit)>>]]

\* one simulation tick without input; trace keeps every position ship 2 had
\* at the end of a tick
RewindTick ==
  /\ ev.ticks < HistoryTicks
  /\ LET w == Game_tickRewind(ev.world, SIM_TICK_MS, "none") IN
     ev' = [ev EXCEPT !.op = "tick", !.ticks = @ + 1, !.world = w, !.lag = 0,
                      !.pos = [x |-> w.players[2].x, y |-> w.players[2].y],
                      !.trace = Append(@, [x |-> w.players[2].x, y |-> w.players[2].y])]
  /\ UNCHANGED <<rooms, rt, socks>>

\* a caller (hit-scan, beam, blast, nova) asks where ship 2 was lagMs ago
Rewind(lagMs) ==
  /\ ev.op # "rewind"
  /\ ev' = [ev EXCEPT !.op = "rewind", !.lag = lagMs,
                      !.pos = getRewindPos(ev.world.players[2], lagMs)]
  /\ UNCHANGED <<rooms, rt, socks>>

NextRewind ==
  \/ RewindTick
  \/ \E lagMs \in RewindLags : Rewind(lagMs)

SpecRewind == InitRewind /\ [][NextRewind]_vars

(* C40: the position history of a ship holds the positions of its last ticks,
   at most 30 of them, the oldest dropped first; a rewind by lagMs > 0 returns
   the sample at index max(0, historyLen - 1 - round(lagMs / 16)), or the
   latest position when the history holds fewer samples than the ticks asked
   for; a rewind with lagMs <= 0 or an empty history returns the current
   position. *)
C40_HistoryAndRewind ==
  LET p == ev.world.players[2]
      h == p.posHistory
      n == Len(h)
      current == [x |-> p.x, y |-> p.y]
      ticksBack == (2 * ev.lag + 16) \div 32
  IN /\ n <= 30
     /\ n = Min(ev.ticks, 30)
     /\ h = SubSeq(ev.trace, Len(ev.trace) - n + 1, Len(ev.trace))
     /\ ev.op = "rewind" =>
          IF ev.lag <= 0 \/ n = 0 THEN ev.pos = current
          ELSE IF n - 1 - ticksBack < 0 THEN ev.pos = h[n]
          ELSE ev.pos = h[(n - 1 - ticksBack) + 1]

(* ==================================================================== *)
(* Special weapons: the whole tick of src/unnamed/part_002, with bombs, *)
(* the nova, the laser beam and the pickups. Ships lie on the line      *)
(* y = 50 and head along the x axis.                                    *)
(* ==================================================================== *)
CONFIG_fireCooldownMs == 160
CONFIG_pickupRadius_x10 == 28        \* 2.8
CONFIG_laserRangeUnits == 55
CONFIG_laserWidthUnits_x10 == 12     \* 1.2
CONFIG_laserDurationMs == 2000
CONFIG_bombSpeed == 50
CONFIG_bombDamage == 60
CONFIG_bombRadius == 8
CONFIG_bombTtlMs == 1600
CONFIG_novaDamage == 50
CONFIG_novaRadius == 15
CONFIG_specialUsesPerPickup == 3
CONFIG_roundDurationMs_full == 180000

PICKUP_TYPES == {"laser", "bomb", "nova"}

\* a ship of initState; specialWeapon "none" stands for null, pickups is
\* stats.pickups
ArmedShip(id, x, vx, angle, hp) ==
  [RewindShip(id, x, vx, hp) EXCEPT !.angle = angle] @@
  [fireCooldownMs |-> 0, specialWeapon |-> "none", specialUses |-> 0,
   laserActiveMs |-> 0, novaCooldownMs |-> 0, pickups |-> 0]

\* a weapon that stays in hand when its uses run out
clearSpent_keep(p) == p

\* if (p.specialUses <= 0) { p.specialWeapon = null; p.specialUses = 0 }
clearSpent(p) ==
  IF p.specialUses <= 0 THEN [p EXCEPT !.specialWeapon = "none", !.specialUses = 0] ELSE p

\* a hit that takes the hit points and leaves the alive flag
hurt_flagKept(state, pid, damage) ==
  [state EXCEPT !.players[pid].hp = Max(0, @ - damage)]

\* target.hp = Math.max(0, target.hp - dmg); if (target.hp <= 0 && target.alive)
\* target.alive = false
hurt(state, pid, damage) == damageShip(state, pid, damage)

\* Math.round(damage * (1 - (d / radius) * loss / 10)), d in hundredths
falloffDamage(damage, radius, loss, d) ==
  MathRound(damage * 10 * radius * PosUnit - damage * loss * d, 10 * radius * PosUnit)

\* triggerBombExplosion from the ship at place i of the ship order on
RECURSIVE triggerBombExplosion(_, _, _)
triggerBombExplosion(state, pr, i) ==
  IF i > Len(state.order) THEN state
  ELSE
    LET pid == state.order[i]
        p == state.players[pid]
        pos == IF pid # pr.ownerId THEN getRewindPos(p, pr.lagCompMs)
               ELSE [x |-> p.x, y |-> p.y]
        d == Hypot(pos.x - pr.x, pos.y - pr.y)
        dmg == falloffDamage(CONFIG_bombDamage, CONFIG_bombRadius, 6, d)
        actualDmg == IF pid = pr.ownerId THEN MathRound(dmg, 2) ELSE dmg
    IN IF p.alive /\ d <= CONFIG_bombRadius * PosUnit
       THEN triggerBombExplosion(hurt(state, pid, actualDmg * HpUnit), pr, i + 1)
       ELSE triggerBombExplosion(state, pr, i + 1)

\* the nova of ship pid, from the ship at place i of the ship order on
RECURSIVE novaBurst(_, _, _)
novaBurst(state, pid, i) ==
  IF i > Len(state.order) THEN state
  ELSE
    LET tid == state.order[i]
        target == state.players[tid]
        p == state.players[pid]
        targetPos == getRewindPos(target, p.input.lagCompMs)
        d == Hypot(targetPos.x - p.x, targetPos.y - p.y)
        dmg == falloffDamage(CONFIG_novaDamage, CONFIG_novaRadius, 5, d)
    IN IF tid # pid /\ target.alive /\ d <= CONFIG_novaRadius * PosUnit
       THEN novaBurst(hurt(state, tid, dmg * HpUnit), pid, i + 1)
       ELSE novaBurst(state, pid, i + 1)

fireSpecialWeapon(state, pid) ==
  LET p == state.players[pid]
      muzzle == ((CONFIG_playerRadius_x10 + 10) * PosUnit) \div 10
      lo == (CONFIG_projectileRadius_x10 * PosUnit) \div 10
      hi == CONFIG_arenaWidth * PosUnit - lo
      pr == [id |-> <<state.tick, pid, "bomb">>, ownerId |-> pid,
             x |-> Clamp(p.x + MulDiv(MathCos(p.angle), muzzle, 1000), lo, hi),
             y |-> Clamp(p.y, lo, hi),
             vx |-> MulDiv(MathCos(p.angle), CONFIG_bombSpeed * PosUnit, 1000), vy |-> 0,
             ttlMs |-> CONFIG_bombTtlMs,
             damage |-> CONFIG_bombDamage * HpUnit, isBomb |-> TRUE,
             lagCompMs |-> p.input.lagCompMs]
  IN IF p.specialWeapon = "bomb"
     THEN [state EXCEPT
             !.projectiles = Append(@, pr),
             !.players[pid] = clearSpent([p EXCEPT !.specialUses = @ - 1,
                                                   !.fireCooldownMs = CONFIG_fireCooldownMs * 2])]
     ELSE IF p.specialWeapon = "nova" /\ p.novaCooldownMs <= 0
     THEN LET s1 == novaBurst(state, pid, 1) IN
          [s1 EXCEPT !.players[pid] =
             clearSpent([s1.players[pid] EXCEPT !.specialUses = @ - 1,
                                                !.novaCooldownMs = CONFIG_fireCooldownMs * 3])]
     ELSE state

\* applyLaserDamage from the ship at place i of the ship order on
RECURSIVE applyLaserDamage(_, _, _, _)
applyLaserDamage(state, pid, dtMs, i) ==
  IF i > Len(state.order) THEN state
  ELSE
    LET tid == state.order[i]
        target == state.players[tid]
        p == state.players[pid]
        targetPos == getRewindPos(target, p.input.lagCompMs)
        dx == targetPos.x - p.x
        dy == targetPos.y - p.y
        proj == MulDiv(dx, MathCos(p.angle), 1000) + MulDiv(dy, MathSin(p.angle), 1000)
        perpDist == Abs(MulDiv(dy, MathCos(p.angle), 1000) - MulDiv(dx, MathSin(p.angle), 1000))
        reach == ((CONFIG_laserWidthUnits_x10 \div 2 + CONFIG_playerRadius_x10) * PosUnit) \div 10
        dmg == ((CONFIG_laserDps * HpUnit) \div 1000) * dtMs
    IN IF tid = pid \/ ~target.alive \/ proj < 0 \/ proj > CONFIG_laserRangeUnits * PosUnit
          \/ perpDist > reach
       THEN applyLaserDamage(state, pid, dtMs, i + 1)
       ELSE applyLaserDamage(hurt(state, tid, dmg), pid, dtMs, i + 1)

\* updateProjectiles from projectile i on, bombs included
RECURSIVE updateProjectilesArmed(_, _, _, _)
updateProjectilesArmed(state, dtMs, i, kept) ==
  IF i > Len(state.projectiles) THEN [state EXCEPT !.projectiles = kept]
  ELSE
    LET pr == state.projectiles[i]
        lo == (CONFIG_projectileRadius_x10 * PosUnit) \div 10
        hi == CONFIG_arenaWidth * PosUnit - lo
        aged == [pr EXCEPT !.ttlMs = @ - dtMs]
        moved == [aged EXCEPT !.x = @ + MulDiv(pr.vx, dtMs, 1000),
                              !.y = @ + MulDiv(pr.vy, dtMs, 1000)]
        now == FirstHit(state, pr.ownerId, moved.x, moved.y, 0)
        rewound == IF pr.lagCompMs > 0
                   THEN FirstHit(state, pr.ownerId, moved.x, moved.y, pr.lagCompMs) ELSE 0
        hit == IF now # 0 THEN now ELSE rewound
        blast(at) == IF pr.isBomb THEN triggerBombExplosion(state, at, 1) ELSE state
    IN IF aged.ttlMs <= 0
       THEN updateProjectilesArmed(blast(aged), dtMs, i + 1, kept)
       ELSE IF moved.x < lo \/ moved.x > hi \/ moved.y < lo \/ moved.y > hi
       THEN updateProjectilesArmed(blast(moved), dtMs, i + 1, kept)
       ELSE IF hit = 0
       THEN updateProjectilesArmed(state, dtMs, i + 1, Append(kept, moved))
       ELSE IF pr.isBomb
       THEN updateProjectilesArmed(blast(moved), dtMs, i + 1, kept)
       ELSE updateProjectilesArmed(hurt(state, hit, pr.damage), dtMs, i + 1, kept)

\* spawnPickups: spot and type are what pseudoRandom of the seed and the tick
\* give
spawnPickupsArmed(state, spot, type) ==
  IF state.tick % CONFIG_pickupSpawnEveryTicks # 0 THEN state
  ELSE IF Len(state.pickups) >= CONFIG_maxPickups THEN state
  ELSE [state EXCEPT !.pickups =
          Append(@, [id |-> <<"pu", state.tick, Len(state.pickups)>>,
                     x |-> spot, y |-> 50 * PosUnit, type |-> type,
                     value |-> CONFIG_specialUsesPerPickup])]

\* collectPickups from pickup i on
RECURSIVE collectPickupsArmed(_, _, _)
collectPickupsArmed(state, i, rest) ==
  IF i > Len(state.pickups) THEN [state EXCEPT !.pickups = rest]
  ELSE
    LET pickup == state.pickups[i]
        reach == ((CONFIG_pickupRadius_x10 + CONFIG_playerRadius_x10) * PosUnit) \div 10
        near == SelectSeq(state.order, LAMBDA pid :
                  /\ state.players[pid].alive
                  /\ distSq(pickup.x, pickup.y, state.players[pid].x, state.players[pid].y)
                       <= reach * reach)
    IN IF Len(near) = 0 THEN collectPickupsArmed(state, i + 1, Append(rest, pickup))
       ELSE collectPickupsArmed(
              [state EXCEPT !.players[near[1]] =
                 [@ EXCEPT !.specialWeapon = pickup.type, !.specialUses = pickup.value,
                           !.laserActiveMs = 0, !.pickups = @ + 1]],
              i + 1, rest)

\* the beam of the laser, after the firing step of ship pid
laserStep(state, pid, dtMs) ==
  LET p == state.players[pid] IN
  IF p.specialWeapon = "laser" /\ p.input.fire /\ p.specialUses > 0
  THEN LET s1 == applyLaserDamage([state EXCEPT !.players[pid].laserActiveMs = @ + dtMs],
                                  pid, dtMs, 1)
           p1 == s1.players[pid]
       IN IF p1.laserActiveMs >= CONFIG_laserDurationMs
          THEN [s1 EXCEPT !.players[pid] =
                  clearSpent([p1 EXCEPT !.specialUses = @ - 1, !.laserActiveMs = 0])]
          ELSE s1
  ELSE [state EXCEPT !.players[pid].laserActiveMs = 0]

\* the loop of tick over the ships, from place i of the ship order on
RECURSIVE tickArmed(_, _, _, _)
tickArmed(state, dtMs, i, suffix) ==
  IF i > Len(state.order) THEN state
  ELSE
    LET pid == state.order[i]
        moved == recordPosition(moveShip(state.players[pid], dtMs))
        p == [moved EXCEPT !.fireCooldownMs = Max(0, @ - dtMs),
                           !.novaCooldownMs = Max(0, @ - dtMs)]
        s1 == [state EXCEPT !.players[pid] = p]
        s2 == IF ~(p.input.firePressed /\ p.fireCooldownMs <= 0) THEN s1
              ELSE IF p.specialWeapon # "none" /\ p.specialUses > 0
              THEN fireSpecialWeapon(s1, pid)
              ELSE [spawnProjectileRewind(s1, pid, p.input.lagCompMs, suffix) EXCEPT
                      !.players[pid].fireCooldownMs = CONFIG_fireCooldownMs]
        s3 == [s2 EXCEPT !.players[pid].input.firePressed = FALSE,
                         !.players[pid].input.fireSeq = 0]
    IN IF ~state.players[pid].alive THEN tickArmed(state, dtMs, i + 1, suffix)
       ELSE tickArmed(laserStep(s3, pid, dtMs), dtMs, i + 1, suffix)

Game_tickArmed(state, dtMs, suffix, spot, type) ==
  IF state.phase # "playing" THEN state
  ELSE
    LET s1 == [state EXCEPT !.tick = @ + 1, !.remainingMs = Max(0, @ - dtMs)]
        s2 == tickArmed(s1, dtMs, 1, suffix)
        s3 == updateProjectilesArmed(s2, dtMs, 1, <<>>)
        s4 == collectPickupsArmed(spawnPickupsArmed(s3, spot, type), 1, <<>>)
    IN resolveTerminal(s4)

\* what ship 1 holds in a match under way: nothing, or a special with all or
\* one of its uses left, the laser fresh or about to use one up
HeldChoices ==
  {<<"none", 0, 0>>} \cup
  {<<w, u, 0>> : w \in PICKUP_TYPES, u \in {CONFIG_specialUsesPerPickup, 1}} \cup
  {<<"laser", 1, CONFIG_laserDurationMs - SIM_TICK_MS>>}

\* the input frames of ship 1's user: nothing, a fire press, the button held
ArmsPayload(kind, lag) ==
  [turn |-> 0, thrust |-> 0, fire |-> kind # "idle", fire_pressed |-> kind = "press",
   fire_seq |-> 0, lag_comp_ms |-> lag]

\* a match under way: ship 1 at its spawn point, ship 2 close by, at rest or
\* drifting towards it
InitArms ==
  /\ rooms = 0
  /\ rt = <<>>
  /\ socks = [s \in Sockets |->
               [status |-> "idle", userId |-> 0, sessionId |-> 0, closeCode |-> 0]]
  /\ \E held \in HeldChoices, target \in {<<2400, 0>>, <<3000, -2500>>},
        hp1 \in {CONFIG_maxHp, 10}, hp2 \in {CONFIG_maxHp, CONFIG_projectileDamage, 2},
        lag \in {0, 48} :
       ev = [op |-> "start", ticks |-> 0, lag |-> lag, payload |-> ArmsPayload("idle", lag),
             world |->
               [phase |-> "playing", tick |-> 0, remainingMs |-> CONFIG_roundDurationMs_full,
                order |-> <<1, 2>>, projectiles |-> <<>>, pickups |-> <<>>,
                winnerIds |-> <<>>, reason |-> "null",
                players |->
                  <<[ArmedShip(1, 18 * PosUnit, 0, 0, hp1 * HpUnit) EXCEPT
                       !.specialWeapon = held[1], !.specialUses = held[2],
                       !.laserActiveMs = held[3]],
                    ArmedShip(2, target[1], target[2], TAU_mrad \div 2, hp2 * HpUnit)>>]]

\* one server tick: applyInput with the latest input of ship 1's user, then
\* Game.tick
ArmsTick(kind, dtMs, spot, type) ==
  /\ ev.ticks < ArmsTicks
  /\ LET payload == ArmsPayload(kind, ev.lag)
         w == Game_applyInput(ev.world, 1, payload)
     IN ev' = [ev EXCEPT !.op = "tick", !.ticks = @ + 1, !.payload = payload,
                         !.world = Game_tickArmed(w, dtMs, "k3f9a", spot, type)]
  /\ UNCHANGED <<rooms, rt, socks>>

ArmsElapsed == {2 * SIM_TICK_MS}
\* where pseudoRandom puts a pickup: on ship 1's spawn point or far from both
PickupSpots == {18 * PosUnit, 82 * PosUnit}

NextArms ==
  \E kind \in {"idle", "press", "hold"}, dtMs \in ArmsElapsed, spot \in PickupSpots,
     type \in PICKUP_TYPES : ArmsTick(kind, dtMs, spot, type)

SpecArms == InitArms /\ [][NextArms]_vars

(* C36: at the end of every simulation tick each ship has no special exactly
   when its uses are 0, and holds between 1 and 3 uses otherwise; a tick in
   which the ship fires a bomb or a nova (and takes no pickup) leaves one use
   less, and a nova press during the nova cooldown leaves the uses and the
   special as they were. *)
C36_SpecialUses ==
  [][\A pid \in {1, 2} :
       LET a == ev.world.players[pid]
           b == ev'.world.players[pid]
           dtMs == ev.world.remainingMs - ev'.world.remainingMs
           fires == /\ ev.world.phase = "playing" /\ a.alive /\ pid = 1
                    /\ ev'.payload.fire_pressed
                    /\ a.fireCooldownMs - dtMs <= 0
                    /\ b.pickups = a.pickups
       IN /\ (b.specialWeapon = "none") <=> (b.specialUses = 0)
          /\ b.specialWeapon # "none" => (1 <= b.specialUses /\ b.specialUses <= 3)
          /\ (fires /\ a.specialWeapon = "bomb") => b.specialUses = a.specialUses - 1
          /\ (fires /\ a.specialWeapon = "nova" /\ a.novaCooldownMs - dtMs <= 0)
               => b.specialUses = a.specialUses - 1
          /\ (fires /\ a.specialWeapon = "nova" /\ a.novaCooldownMs - dtMs > 0)
               => (b.specialUses = a.specialUses /\ b.specialWeapon = "nova")]_vars

\* ship 1 pressed fire during the cooldown of the nova it fired one tick
\* before, and still has the two uses left
C36_Witness ==
  /\ ev.op = "tick" /\ ev.payload.fire_pressed
  /\ ev.world.players[1].specialWeapon = "nova"
  /\ ev.world.players[1].specialUses = 2
  /\ ev.world.players[1].novaCooldownMs = CONFIG_fireCooldownMs * 3 - 2 * SIM_TICK_MS

(* C39: at the end of every simulation tick each ship is alive exactly when
   its hp is above 0, whatever damaged it (projectile, instant rewind hit,
   bomb blast, laser, nova); a ship that is not alive stays as it is: it does
   not come back, and its position, hp and weapon state do not change. *)
C39_AliveIffHp ==
  [][\A pid \in {1, 2} :
       LET a == ev.world.players[pid]
           b == ev'.world.players[pid]
       IN /\ b.alive <=> b.hp > 0
          /\ ~a.alive => b = a]_vars

\* ship 2 was shot dead, and a later tick has run on the world
C39_Witness ==
  /\ ev.op = "tick"
  /\ ~ev.world.players[2].alive /\ ev.world.players[2].hp = 0
  /\ ev.world.players[1].alive
  /\ ev.ticks > ev.world.tick

(* ---- the laser beam over many ticks: ship 1 has just taken a laser ---- *)
(* ---- pickup; both ships stand on their spawn points                ---- *)
InitLaser ==
  /\ rooms = 0
  /\ rt = <<>>
  /\ socks = [s \in Sockets |->
               [status |-> "idle", userId |-> 0, sessionId |-> 0, closeCode |-> 0]]
  /\ ev = [op |-> "start", ticks |-> 0, beamMs |-> 0,
           world |->
             [phase |-> "playing", tick |-> 0, remainingMs |-> CONFIG_roundDurationMs_full,
              order |-> <<1, 2>>, projectiles |-> <<>>, pickups |-> <<>>,
              winnerIds |-> <<>>, reason |-> "null",
              players |->
                <<[ArmedShip(1, 18 * PosUnit, 0, 0, CONFIG_maxHp * HpUnit) EXCEPT
                     !.specialWeapon = "laser",
                     !.specialUses = CONFIG_specialUsesPerPickup, !.pickups = 1],
                  ArmedShip(2, 82 * PosUnit, 0, TAU_mrad \div 2, CONFIG_maxHp * HpUnit)>>]]

\* one server tick with the fire button of ship 1 held or released; beamMs
\* adds up the time the beam was on
LaserTick(kind, dtMs) ==
  /\ ev.ticks < LaserTicks
  /\ LET w == Game_applyInput(ev.world, 1, ArmsPayload(kind, 0))
         p == w.players[1]
         beamOn == /\ w.phase = "playing" /\ p.alive /\ p.specialWeapon = "laser"
                   /\ p.input.fire /\ p.specialUses > 0
     IN ev' = [ev EXCEPT !.op = "tick", !.ticks = @ + 1,
                         !.beamMs = IF beamOn THEN @ + dtMs ELSE @,
                         !.world = Game_tickArmed(w, dtMs, "k3f9a", 50 * PosUnit, "bomb")]
  /\ UNCHANGED <<rooms, rt, socks>>

NextLaser == \E kind \in {"idle", "hold"} : LaserTick(kind, 2 * SIM_TICK_MS)

SpecLaser == InitLaser /\ [][NextLaser]_vars

(* C37: a ship that took one laser pickup has used up one use for every
   2000 ms the beam was on, also over bursts with the button released in
   between, so the special is gone after at most 3 * 2000 ms of beam time. *)
C37_BeamTimePerUse ==
  \A k \in 1..CONFIG_specialUsesPerPickup :
    ev.beamMs >= k * CONFIG_laserDurationMs =>
      /\ ev.world.players[1].specialUses <= CONFIG_specialUsesPerPickup - k
      /\ (k = CONFIG_specialUsesPerPickup => ev.world.players[1].specialWeapon = "none")

====
